---- MODULE Spec2Model ----
(***************************************************************************)
(* A model of hh-apply-cli's authenticated sync client:                    *)
(*   - HHApiClient._request / _refresh_token / _save_token  (client.py)    *)
(*   - HHApiClient.sync_negotiation_history                  (client.py)   *)
(*   - upsert_negotiation_history / record_apply_action      (database.py) *)
(*   - _collect_delivered / _is_delivered / _is_failed       (ui/tui.py)   *)
(*                                                                         *)
(* Python strings are sequences of one-character strings, so that strip,   *)
(* lower, startswith and substring tests are computed, not assumed.        *)
(* Instants are integers on one time line; "now" is datetime.now().        *)
(***************************************************************************)
EXTENDS Integers, Sequences, FiniteSets, TLC

\* ------------------------------------------------------------------ bounds

\* The last instant the clock reaches.
MaxTime == 2

\* The number of items the modelled remote puts on one page of /negotiations
\* (the code asks for per_page = 100; the remote of the model holds a handful
\* of negotiations, so the page is scaled down to make several pages happen).
PerPage == 1

\* ------------------------------------------------------------ python values

\* Python's None where a string is expected (never a character sequence).
NoneStr == <<"<None>">>

\* Python's None where an instant is expected.
NoTime == -1

\* Python's None where a token or a name (an atom) is expected.
None == "None"

\* "" - the empty Python string.
EmptyStr == <<>>

\* str.lower() on one character (the ASCII letters the model's strings use).
LowerChar(c) ==
    LET up == [A |-> "a", D |-> "d", E |-> "e", F |-> "f", I |-> "i", J |-> "j",
               L |-> "l", P |-> "p", R |-> "r", C |-> "c", T |-> "t"]
    IN IF c \in DOMAIN up THEN up[c] ELSE c

\* str.lower()
Lower(s) == [i \in 1..Len(s) |-> LowerChar(s[i])]

\* The characters str.strip() and str.split() treat as whitespace.
IsSpace(c) == c \in {" ", "\t", "\n"}

RECURSIVE LStrip(_)
\* str.lstrip()
LStrip(s) == IF s # <<>> /\ IsSpace(Head(s)) THEN LStrip(Tail(s)) ELSE s

RECURSIVE RStrip(_)
\* str.rstrip()
RStrip(s) ==
    IF s # <<>> /\ IsSpace(s[Len(s)]) THEN RStrip(SubSeq(s, 1, Len(s) - 1)) ELSE s

\* str.strip()
Strip(s) == RStrip(LStrip(s))

\* s.startswith(prefix)
StartsWith(s, prefix) ==
    /\ Len(prefix) <= Len(s)
    /\ SubSeq(s, 1, Len(prefix)) = prefix

\* "m in s" for strings: m occurs in s as a substring.
Contains(s, m) ==
    \E i \in 0..(Len(s) - Len(m)) : SubSeq(s, i + 1, i + Len(m)) = m

\* "value or ''" followed by str(): None and "" both give "".
OrEmpty(value) == IF value = NoneStr THEN EmptyStr ELSE value

\* "x or None": the empty string becomes None.
OrNone(s) == IF s = EmptyStr THEN NoneStr ELSE s

\* ------------------------------------------------------------ status words

S_applied == <<"a", "p", "p", "l", "i", "e", "d">>
S_failed == <<"f", "a", "i", "l", "e", "d">>
S_rejected == <<"r", "e", "j", "e", "c", "t", "e", "d">>
S_response == <<"r", "e", "s", "p", "o", "n", "s", "e">>
S_responded == <<"r", "e", "s", "p", "o", "n", "d", "e", "d">>
S_invited == <<"i", "n", "v", "i", "t", "e", "d">>
S_offer == <<"o", "f", "f", "e", "r">>
S_discard == <<"d", "i", "s", "c", "a", "r", "d">>
S_unknown == <<"u", "n", "k", "n", "o", "w", "n">>

\* The Cyrillic markers of ui/tui.py, one token per Cyrillic letter.
S_otklik == <<"cyr_o", "cyr_t", "cyr_k", "cyr_l", "cyr_i", "cyr_k">>
S_dostavl == <<"cyr_d", "cyr_o", "cyr_s", "cyr_t", "cyr_a", "cyr_v", "cyr_l">>
S_prochitan ==
    <<"cyr_p", "cyr_r", "cyr_o", "cyr_ch", "cyr_i", "cyr_t", "cyr_a", "cyr_n">>

\* ------------------------------------------------------------- model sets

\* The local profile names.
Profiles == {"p1"}

\* The vacancy ids the remote knows.
Vacancies == {"v1"}

\* The resume ids of the account; None is a negotiation without a resume.
Resumes == {"r1", None}

\* The state ids the remote reports for a negotiation.
RemoteStates == {S_response, S_rejected}

\* ---------------------------------------------------------------- state

VARIABLES
    now,                  \* datetime.now()
    access_token,         \* HHApiClient.access_token
    refresh_token,        \* HHApiClient.refresh_token
    token_expires_at,     \* HHApiClient.token_expires_at
    profile_name,         \* HHApiClient.profile_name
    profiles,             \* table profiles: a set of rows
    app_state,            \* table app_state: key -> value
    negotiation_history,  \* table negotiation_history: a set of rows
    remote,               \* the platform's negotiations: key -> state, updated_at
    received,             \* per key, the last record the store was given
    rpc,                  \* where the running _request call stands
    caller,               \* who called _request
    valid,                \* what is_authenticated() answered on entry
    log,                  \* the steps of the running _request call, in order
    sent,                 \* the bearer tokens of its resource requests, in order
    responses,            \* the responses to them, in order
    refreshes,            \* the outcomes of its _refresh_token calls, in order
    result,               \* what the call returned or raised
    spc,                  \* where sync_negotiation_history stands
    params,               \* its params: date_from and page
    all_items,            \* its all_items
    run,                  \* the last sync run: start, watermark read, outcome
    vacancy_cache,        \* table vacancy_cache: a set of rows
    dictionaries_cache,   \* table dictionaries_cache: a set of rows
    cache_pc,             \* the live fetch a cache miss started, if any
    cache_read,           \* the last cache read: key, entry found, served or not
    auth_log,             \* the last authorization saved, and the name it replaced
    listener,             \* where the "--auth" process and its callback listener stand
    callback_response,    \* what the last request to /oauth_callback was answered
    exchanged,            \* the codes exchanged and saved since authorize began
    walk,                 \* the params of the page requests of the sync run, in order
    app,                  \* per instance of the application, where its TUI stands
    sync_worker,          \* per instance, the profile its SyncWorker is syncing
    pending_details_id,   \* VacancyListScreen._pending_details_id
    details_pane,         \* what the widget #vacancy_details shows, and for which vacancy
    fetch_workers,        \* the vacancies whose fetch_vacancy_details thread is running
    selected_vacancies,   \* VacancyListScreen.selected_vacancies
    apply_pc,             \* where the worker of run_apply_worker stands
    apply_todo,           \* list(self.selected_vacancies) of its loop
    apply_attempts,       \* the vacancies it called apply_to_vacancy for, in order
    worker_pc,            \* per thread that uses the client, where its _request stands
    grants,               \* the refresh grants posted to the token endpoint, in order
    fn_in,                \* the arguments of the function call under study
    fn_out                \* what that call returned

clientVars == <<access_token, refresh_token, token_expires_at, profile_name>>
dbVars == <<profiles, app_state>>
storeVars == <<negotiation_history, received>>
reqVars == <<rpc, caller, valid, log, sent, responses, refreshes, result>>
syncVars == <<spc, params, all_items, run>>
cacheVars == <<vacancy_cache, dictionaries_cache, cache_pc, cache_read>>
authVars == <<auth_log, listener, callback_response, exchanged>>
fnVars == <<fn_in, fn_out>>
walkVars == <<walk>>
appVars == <<app, sync_worker>>
screenVars == <<pending_details_id, details_pane, fetch_workers,
                selected_vacancies, apply_pc, apply_todo, apply_attempts>>
threadVars == <<worker_pc, grants>>
extVars == <<cacheVars, authVars, fnVars, walkVars, appVars, screenVars, threadVars>>

\* ------------------------------------------------------ status classifier

\* constants.DELIVERED_STATUS_CODES: the delivered vocabulary.
DELIVERED_STATUS_CODES == {S_applied, S_response, S_responded, S_invited, S_offer}

\* constants.FAILED_STATUS_CODES: the failed vocabulary.
FAILED_STATUS_CODES == {S_failed}

\* database._normalize_status: str(value or "").strip().lower()
_normalize_status(value) == Lower(Strip(OrEmpty(value)))

\* The prefixes database._status_was_delivered tries in turn.
DeliveredPrefixes == {S_applied, S_response, S_responded, S_invited, S_offer}

\* _status_was_delivered on the status as given, not trimmed or lower-cased.
_status_was_delivered_raw(status) ==
    IF status = EmptyStr \/ status = NoneStr THEN FALSE
    ELSE IF status \in FAILED_STATUS_CODES THEN FALSE
    ELSE IF status \in DELIVERED_STATUS_CODES THEN TRUE
    ELSE \E prefix \in DeliveredPrefixes : StartsWith(status, prefix)

\* database._status_was_delivered
_status_was_delivered(status) ==
    LET code == _normalize_status(status)
    IN IF code = EmptyStr THEN FALSE
       ELSE IF code \in FAILED_STATUS_CODES THEN FALSE
       ELSE IF code \in DELIVERED_STATUS_CODES THEN TRUE
       ELSE \E prefix \in DeliveredPrefixes : StartsWith(code, prefix)

RECURSIVE SplitJoin(_, _)
\* " ".join(s.split()): runs of whitespace become one space, none at the ends.
\* pending is TRUE when a space is owed before the next word character.
SplitJoin(s, pending) ==
    IF s = <<>> THEN <<>>
    ELSE IF IsSpace(Head(s)) THEN SplitJoin(Tail(s), TRUE)
    ELSE (IF pending THEN <<" ">> ELSE <<>>) \o <<Head(s)>> \o SplitJoin(Tail(s), FALSE)

\* ui/tui._normalize: "" for a falsy text, else " ".join(str(text).lower().split())
_normalize(text) ==
    IF text = NoneStr \/ text = EmptyStr THEN EmptyStr
    ELSE SplitJoin(LStrip(Lower(text)), FALSE)

\* ui/tui.DELIVERED_MARKERS
DELIVERED_MARKERS == {S_otklik, S_dostavl, S_prochitan, S_applied}

\* ui/tui.FAILED_MARKERS
FAILED_MARKERS == {S_failed}

\* ui/tui._is_delivered
_is_delivered(status) == \E m \in DELIVERED_MARKERS : Contains(_normalize(status), m)

\* ui/tui._is_failed
_is_failed(status) == \E m \in FAILED_MARKERS : Contains(_normalize(status), m)

\* ---------------------------------------------------------- history store

\* datetime.isoformat(): the text of an instant.
IsoFormat(t) == <<"iso", t>>

\* datetime.fromisoformat(): the instant a text names.
FromIsoFormat(text) == text[2]

\* The key of table negotiation_history's unique constraint
\* uq_negotiation_vacancy_resume.
RowKey(row) == <<row.vacancy_id, row.resume_id>>

\* str(resume_id or "").strip() for a resume id: None becomes "".
ResumeKey(resume_id) == IF resume_id = None THEN "" ELSE resume_id

\* The keys a negotiation of the model can have.
Keys == {<<v, ResumeKey(r)>> : v \in Vacancies, r \in Resumes}

\* OnConflictDoUpdate without the conflict clause: every call adds its row.
OnConflictInsert(table, values, set_cols) == table \cup {values}

\* INSERT ... ON CONFLICT (vacancy_id, resume_id) DO UPDATE SET <set_cols>:
\* a row with the key keeps every column outside set_cols; no row: insert.
OnConflictDoUpdate(table, values, set_cols) ==
    LET old == {r \in table : RowKey(r) = RowKey(values)}
    IN IF old = {} THEN table \cup {values}
       ELSE (table \ old) \cup
            {[c \in DOMAIN r |-> IF c \in set_cols THEN values[c] ELSE r[c]] : r \in old}

\* SyncSetCols with reason among the columns overwritten.
SyncSetColsWithReason == {"profile_name", "status", "reason", "was_delivered", "applied_at"}

\* The columns upsert_negotiation_history overwrites on conflict.
SyncSetCols == {"profile_name", "status", "was_delivered", "applied_at"}

\* The columns record_apply_action overwrites on conflict.
ApplySetCols == {"profile_name", "status", "reason", "was_delivered", "applied_at"}

\* ItemStatus with the state name preferred to the state id and code.
ItemStatusNameFirst(item) ==
    LET state_id == IF OrEmpty(item.state_id) # EmptyStr THEN item.state_id
                    ELSE item.state_code
    IN Lower(Strip(IF OrEmpty(item.state_name) # EmptyStr THEN item.state_name
                   ELSE IF OrEmpty(state_id) # EmptyStr THEN state_id
                   ELSE S_unknown))

\* The status upsert_negotiation_history computes for an item: the state id
\* (or code) when truthy, else the state name, item status or "unknown";
\* stripped, lower-cased.
ItemStatus(item) ==
    LET state_id == IF OrEmpty(item.state_id) # EmptyStr THEN item.state_id
                    ELSE item.state_code
        fallback == IF OrEmpty(item.state_name) # EmptyStr THEN item.state_name
                    ELSE IF OrEmpty(item.status) # EmptyStr THEN item.status
                    ELSE S_unknown
    IN Lower(Strip(IF OrEmpty(state_id) # EmptyStr THEN state_id ELSE fallback))

\* The row upsert_negotiation_history builds for one item.
SyncValues(item, profile) ==
    [vacancy_id |-> item.vacancy_id,
     profile_name |-> profile,
     resume_id |-> ResumeKey(item.resume_id),
     status |-> ItemStatus(item),
     reason |-> NoneStr,
     was_delivered |-> _status_was_delivered(ItemStatus(item)),
     applied_at |-> FromIsoFormat(item.updated_at)]

\* One pass of upsert_negotiation_history's loop: an item without a vacancy
\* id is skipped.
UpsertItem(table, item, profile) ==
    IF item.vacancy_id = None THEN table
    ELSE OnConflictDoUpdate(table, SyncValues(item, profile), SyncSetCols)

RECURSIVE upsert_negotiation_history(_, _, _)
\* database.upsert_negotiation_history: the table after the loop and the
\* single commit that follows it.
upsert_negotiation_history(table, negotiations, profile) ==
    IF negotiations = <<>> THEN table
    ELSE upsert_negotiation_history(
             UpsertItem(table, Head(negotiations), profile), Tail(negotiations), profile)

\* The row record_apply_action builds.
ApplyValues(vacancy_id, profile, resume_id, status, reason, t) ==
    [vacancy_id |-> vacancy_id,
     profile_name |-> profile,
     resume_id |-> ResumeKey(resume_id),
     status |-> OrNone(_normalize_status(status)),
     reason |-> OrNone(_normalize_status(reason)),
     was_delivered |-> _status_was_delivered(_normalize_status(status)),
     applied_at |-> t]

\* database.record_apply_action, called at instant t.
record_apply_action(table, vacancy_id, profile, resume_id, status, reason, t) ==
    OnConflictDoUpdate(
        table, ApplyValues(vacancy_id, profile, resume_id, status, reason, t), ApplySetCols)

\* database.get_full_negotiation_history_for_profile: the profile's rows by
\* applied_at descending; rows of equal applied_at come in any order, so this
\* is the set of the lists the query may return.
get_full_negotiation_history_for_profile(table, profile) ==
    LET rows == {r \in table : r.profile_name = profile}
        n == Cardinality(rows)
    IN {h \in [1..n -> rows] :
          /\ \A i, j \in 1..n : i # j => h[i] # h[j]
          /\ \A i, j \in 1..n : i < j => h[i].applied_at >= h[j].applied_at}

\* --------------------------------------------------------------- Reduce

\* The entry _collect_delivered makes for a vacancy id on its first record.
FirstEntry(h) ==
    [last_status |-> h.status,
     last_updated_at |-> h.applied_at,
     has_been_delivered |-> _is_delivered(h.status)]

\* NextEntry with the record supplied last taken as the current one,
\* whatever its timestamp.
NextEntryLastSupplied(e, h) ==
    [last_status |-> h.status,
     last_updated_at |-> h.applied_at,
     has_been_delivered |-> e.has_been_delivered \/ _is_delivered(h.status)]

\* The entry after a further record of the same vacancy id.
NextEntry(e, h) ==
    LET newer == h.applied_at # NoTime /\ h.applied_at > e.last_updated_at
    IN [last_status |-> IF newer THEN h.status ELSE e.last_status,
        last_updated_at |-> IF newer THEN h.applied_at ELSE e.last_updated_at,
        has_been_delivered |-> e.has_been_delivered \/ _is_delivered(h.status)]

RECURSIVE processed_vacancies(_, _)
\* The dictionary processed_vacancies of _collect_delivered after its first
\* loop over history, started from the dictionary acc.
processed_vacancies(acc, history) ==
    IF history = <<>> THEN acc
    ELSE LET h == Head(history)
             vid == h.vacancy_id
         IN IF vid = None THEN processed_vacancies(acc, Tail(history))
            ELSE IF vid \notin DOMAIN acc
                 THEN processed_vacancies(acc @@ (vid :> FirstEntry(h)), Tail(history))
                 ELSE processed_vacancies(
                          [acc EXCEPT ![vid] = NextEntry(acc[vid], h)], Tail(history))

\* The empty dictionary.
EmptyDict == [x \in {} |-> x]

\* ui/tui._collect_delivered: delivered_ids for a history list.
_collect_delivered(history) ==
    LET data == processed_vacancies(EmptyDict, history)
    IN {vid \in DOMAIN data :
          data[vid].has_been_delivered /\ ~_is_failed(data[vid].last_status)}

\* ------------------------------------------------------- credential store

\* access_token / refresh_token None (tokens are positive numbers).
NoToken == 0

\* expires_in when the token endpoint's answer has no such field.
DefaultExpiresIn == 3600

\* Python's None where a dictionary is expected.
NoneDict == [none |-> TRUE]

\* database.load_profile: the row named profile as a dictionary of its
\* columns, or None.
load_profile(table, profile) ==
    LET rows == {r \in table : r.profile_name = profile}
    IN IF rows = {} THEN NoneDict ELSE CHOOSE r \in rows : TRUE

\* dict.get(key, default)
Get(d, key, default) == IF key \in DOMAIN d THEN d[key] ELSE default

\* save_or_update_profile looking the existing row up by the local name
\* instead of the remote user id.
save_or_update_profile_by_name(table, profile, user_info, token_data, expires_at) ==
    IF user_info = NoneDict \/ "id" \notin DOMAIN user_info
                            \/ {"access_token", "refresh_token"} \ DOMAIN token_data # {}
    THEN [error |-> "KeyError", table |-> table]
    ELSE [error |-> "",
          table |-> {r \in table : r.profile_name # profile}
                    \cup {[profile_name |-> profile,
                           hh_user_id |-> user_info.id,
                           email |-> Get(user_info, "email", ""),
                           access_token |-> token_data.access_token,
                           refresh_token |-> token_data.refresh_token,
                           expires_at |-> expires_at]}]

\* database.save_or_update_profile: [error, table]. error is "" when the
\* transaction commits; a raised exception rolls it back. The remote user
\* is read as user_info['id'].
save_or_update_profile(table, profile, user_info, token_data, expires_at) ==
    IF user_info = NoneDict THEN [error |-> "TypeError", table |-> table]
    ELSE IF "id" \notin DOMAIN user_info THEN [error |-> "KeyError", table |-> table]
    ELSE IF {"access_token", "refresh_token"} \ DOMAIN token_data # {}
    THEN [error |-> "KeyError", table |-> table]
    ELSE
      LET existing == {r \in table : r.hh_user_id = user_info.id}
          row == [profile_name |-> profile,
                  hh_user_id |-> user_info.id,
                  email |-> Get(user_info, "email", ""),
                  access_token |-> token_data.access_token,
                  refresh_token |-> token_data.refresh_token,
                  expires_at |-> expires_at]
          others == table \ existing
      IN IF \E r \in others : r.profile_name = profile
         THEN [error |-> "IntegrityError", table |-> table]
         ELSE [error |-> "", table |-> others \cup {row}]

\* ---------------------------------------------------- search configuration

\* database.get_default_config: the main settings (area_id stands for the
\* columns of profile_configs), the keyword list and the role list.
get_default_config ==
    [area_id |-> "113", text_include |-> {"Python developer"}, role_ids_config |-> {"96"}]

\* The tables profile_configs, config_positive_keywords and
\* config_professional_roles, empty. Their profile_name refers to
\* profiles.profile_name with ON DELETE CASCADE only, and the connection
\* never enables foreign keys: a renamed profile leaves their rows as they are.
NoConfigs == [profile_configs |-> {}, keywords |-> {}, roles |-> {}]

\* The rows of the three tables that hold config for profile.
ConfigRows(profile, config) ==
    [profile_configs |-> {[profile_name |-> profile, area_id |-> config.area_id]},
     keywords |-> {[profile_name |-> profile, keyword |-> kw] : kw \in config.text_include},
     roles |-> {[profile_name |-> profile, role_id |-> r] : r \in config.role_ids_config}]

\* database.save_profile_config: the main row of profile is updated, its
\* keywords and roles are deleted and inserted anew.
save_profile_config(configs, profile, config) ==
    LET rows == ConfigRows(profile, config)
    IN [profile_configs |->
            {IF r.profile_name = profile THEN [r EXCEPT !.area_id = config.area_id] ELSE r :
                r \in configs.profile_configs},
        keywords |-> {r \in configs.keywords : r.profile_name # profile} \cup rows.keywords,
        roles |-> {r \in configs.roles : r.profile_name # profile} \cup rows.roles]

\* database.load_profile_config: the default configuration when profile has
\* no main row, else its row, keywords and roles.
load_profile_config(configs, profile) ==
    LET main == {r \in configs.profile_configs : r.profile_name = profile}
    IN IF main = {} THEN get_default_config
       ELSE [area_id |-> (CHOOSE r \in main : TRUE).area_id,
             text_include |->
                 {r.keyword : r \in {k \in configs.keywords : k.profile_name = profile}},
             role_ids_config |->
                 {r.role_id : r \in {k \in configs.roles : k.profile_name = profile}}]

\* save_or_update_profile, lines 989-1016, on the configuration tables: an
\* account that has a row gets its row of profiles updated, name included,
\* and nothing else; a new account gets the default configuration inserted
\* under profile. table is profiles before the call.
save_or_update_profile_configs(configs, table, profile, user_info, token_data, expires_at) ==
    LET saved == save_or_update_profile(table, profile, user_info, token_data, expires_at)
        rows == ConfigRows(profile, get_default_config)
    IN IF saved.error # "" \/ \E r \in table : r.hh_user_id = user_info.id
       THEN configs
       ELSE [profile_configs |-> configs.profile_configs \cup rows.profile_configs,
             keywords |-> configs.keywords \cup rows.keywords,
             roles |-> configs.roles \cup rows.roles]

\* ----------------------------------------------------------- token manager

\* is_authenticated with the instant of expiry still counted as valid.
is_authenticated_until_expiry == access_token # NoToken /\ token_expires_at >= now

\* HHApiClient.is_authenticated
is_authenticated == access_token # NoToken /\ token_expires_at > now

\* What the token endpoint may answer to a refresh grant: a rejection, new
\* tokens with or without expires_in, or a body without a refresh_token.
TokenAnswers ==
    {[rejected |-> TRUE]}
    \cup {[access_token |-> 2]}
    \cup {[access_token |-> 2, refresh_token |-> 2]}
    \cup {[access_token |-> 2, refresh_token |-> 2, expires_in |-> 1]}

\* _save_token with the client's fields assigned before the save is tried.
_save_token_fields_first(token_data, user_info) ==
    LET expires_at == now + Get(token_data, "expires_in", DefaultExpiresIn)
        saved == save_or_update_profile(profiles, profile_name, user_info, token_data, expires_at)
    IN [error |-> saved.error, table |-> saved.table,
        access_token |-> Get(token_data, "access_token", NoToken),
        refresh_token |-> Get(token_data, "refresh_token", NoToken),
        token_expires_at |-> expires_at]

\* HHApiClient._save_token: [error, table, access_token, refresh_token,
\* token_expires_at]; the client's fields change only after the save.
_save_token(token_data, user_info) ==
    LET expires_at == now + Get(token_data, "expires_in", DefaultExpiresIn)
        saved == save_or_update_profile(profiles, profile_name, user_info, token_data, expires_at)
    IN IF saved.error # ""
       THEN [error |-> saved.error, table |-> profiles, access_token |-> access_token,
             refresh_token |-> refresh_token, token_expires_at |-> token_expires_at]
       ELSE [error |-> "", table |-> saved.table,
             access_token |-> token_data.access_token,
             refresh_token |-> token_data.refresh_token,
             token_expires_at |-> expires_at]

\* _refresh_token without the check of the refresh token: the grant is posted
\* with whatever is held, and the endpoint rejects an absent token.
_refresh_token_unchecked(answer) ==
    LET same == [table |-> profiles, access_token |-> access_token,
                 refresh_token |-> refresh_token, token_expires_at |-> token_expires_at]
    IN IF refresh_token = NoToken \/ "rejected" \in DOMAIN answer
       THEN [error |-> "HTTPError", posted |-> TRUE] @@ same
       ELSE [posted |-> TRUE] @@ _save_token(answer, load_profile(profiles, profile_name))

\* HHApiClient._refresh_token when the token endpoint answers `answer`:
\* [error, posted, table, access_token, refresh_token, token_expires_at].
\* posted tells whether the grant was sent at all.
_refresh_token(answer) ==
    LET same == [table |-> profiles, access_token |-> access_token,
                 refresh_token |-> refresh_token, token_expires_at |-> token_expires_at]
    IN IF refresh_token = NoToken
       THEN [error |-> "NoRefreshToken", posted |-> FALSE] @@ same
       ELSE IF "rejected" \in DOMAIN answer
       THEN [error |-> "HTTPError", posted |-> TRUE] @@ same
       ELSE [posted |-> TRUE] @@ _save_token(answer, load_profile(profiles, profile_name))

\* The client's fields and the profiles table after a _refresh_token call
\* that ended as r.
RefreshEffect(r) ==
    /\ profiles' = r.table
    /\ access_token' = r.access_token
    /\ refresh_token' = r.refresh_token
    /\ token_expires_at' = r.token_expires_at

\* HHApiClient.load_profile_data for a stored profile.
load_profile_data(profile) ==
    LET profile_data == load_profile(profiles, profile)
    IN /\ profile_data # NoneDict
       /\ profile_name' = profile_data.profile_name
       /\ access_token' = profile_data.access_token
       /\ refresh_token' = profile_data.refresh_token
       /\ token_expires_at' = profile_data.expires_at

\* -------------------------------------------------------- request executor

\* No result yet.
NoResult == [kind |-> "none", status |-> 0, value |-> NoneDict]

\* response.raise_for_status() passes: a 2xx status.
IsSuccess(status) == status \in {200, 204}

\* What _request returns for a 2xx response: None for a 204, else
\* response.json() (a JSON body is a dictionary; the JSON text null is None).
Returned(response) ==
    [kind |-> "ok", status |-> response.status,
     value |-> IF response.status = 204 THEN NoneDict ELSE response.body]

\* raise ConnectionError(...): the authentication error of _request.
AuthFailure == [kind |-> "ConnectionError", status |-> 0, value |-> NoneDict]

\* raise e for a requests.HTTPError e: it carries the response.
ApiFailure(response) ==
    [kind |-> "HTTPError", status |-> response.status, value |-> response.body]

\* The responses the remote may give to a resource request of a caller other
\* than the sync: a JSON body, the JSON text null, no content, or an error.
PlainResponses ==
    {[status |-> 200, body |-> [text |-> "json"]],
     [status |-> 200, body |-> NoneDict],
     [status |-> 204, body |-> [text |-> ""]],
     [status |-> 401, body |-> [text |-> "unauthorized"]],
     [status |-> 404, body |-> [text |-> "not found"]],
     [status |-> 500, body |-> [text |-> "server error"]]}

\* The request is over: it returned or raised `res`, after the steps `lg`.
FinishAfter(lg, res) ==
    /\ rpc' = "done"
    /\ result' = res
    /\ log' = Append(lg, "return")

\* _request is entered by who: the state of a call that has not started.
Enter(who) ==
    /\ rpc = "idle"
    /\ rpc' = "validate"
    /\ caller' = who
    /\ UNCHANGED <<valid, log, sent, responses, refreshes, result>>

\* The state of the executor when no call is running.
IdleRequest ==
    /\ rpc = "idle"
    /\ caller = None
    /\ valid = FALSE
    /\ log = <<>>
    /\ sent = <<>>
    /\ responses = <<>>
    /\ refreshes = <<>>
    /\ result = NoResult

\* The caller has taken the result: the executor is idle again.
Leave ==
    /\ rpc' = "idle"
    /\ caller' = None
    /\ valid' = FALSE
    /\ log' = <<>>
    /\ sent' = <<>>
    /\ responses' = <<>>
    /\ refreshes' = <<>>
    /\ result' = NoResult

\* _request, line 104: the validity check.
RequestValidate ==
    /\ rpc = "validate"
    /\ valid' = is_authenticated
    /\ log' = Append(log, "validate")
    /\ rpc' = IF is_authenticated THEN "call" ELSE "refresh"
    /\ UNCHANGED <<caller, sent, responses, refreshes, result>>
    /\ UNCHANGED <<clientVars, profiles>>

\* RequestRefreshFirst with the failure of the refresh swallowed: the call
\* goes on to the resource request with the token it has.
RequestRefreshFirstSwallowed ==
    /\ rpc = "refresh"
    /\ \E answer \in TokenAnswers :
         LET r == _refresh_token(answer)
         IN /\ RefreshEffect(r)
            /\ refreshes' = Append(refreshes, r.error)
    /\ rpc' = "call"
    /\ log' = Append(log, "refresh")
    /\ UNCHANGED <<result, caller, valid, sent, responses, profile_name>>

\* _request, lines 105-108: the refresh before any resource request when the
\* credentials are not valid; a failure raises ConnectionError at once.
RequestRefreshFirst ==
    /\ rpc = "refresh"
    /\ \E answer \in TokenAnswers :
         LET r == _refresh_token(answer)
         IN /\ RefreshEffect(r)
            /\ refreshes' = Append(refreshes, r.error)
            /\ IF r.error = ""
               THEN /\ rpc' = "call"
                    /\ log' = Append(log, "refresh")
                    /\ UNCHANGED result
               ELSE FinishAfter(Append(log, "refresh"), AuthFailure)
    /\ UNCHANGED <<caller, valid, sent, responses, profile_name>>

\* RequestCall with every error of the resource request wrapped the way the
\* errors after a 401 are: raised as ConnectionError.
RequestCallWrapped(response) ==
    /\ rpc = "call"
    /\ sent' = Append(sent, access_token)
    /\ responses' = Append(responses, response)
    /\ IF IsSuccess(response.status)
       THEN FinishAfter(Append(log, "call"), Returned(response))
       ELSE FinishAfter(Append(log, "call"), AuthFailure)
    /\ UNCHANGED <<caller, valid, refreshes>>
    /\ UNCHANGED <<clientVars, profiles>>

\* _request, lines 109-117 and 128-130: the resource request with the bearer
\* token, answered by `response`: a 2xx is returned, a 401 goes on to the
\* refresh, any other error is raised as it is.
RequestCall(response) ==
    /\ rpc = "call"
    /\ sent' = Append(sent, access_token)
    /\ responses' = Append(responses, response)
    /\ IF IsSuccess(response.status)
       THEN FinishAfter(Append(log, "call"), Returned(response))
       ELSE IF response.status = 401
       THEN /\ rpc' = "on401"
            /\ log' = Append(log, "call")
            /\ UNCHANGED result
       ELSE FinishAfter(Append(log, "call"), ApiFailure(response))
    /\ UNCHANGED <<caller, valid, refreshes>>
    /\ UNCHANGED <<clientVars, profiles>>

\* _request, lines 118-127: after a 401, one _refresh_token call and, when it
\* succeeded, one retry with the new token, answered by `response`; whatever
\* is raised in between, by the refresh or by the retry, becomes
\* ConnectionError.
Request401(response) ==
    /\ rpc = "on401"
    /\ \E answer \in TokenAnswers :
         LET r == _refresh_token(answer)
         IN /\ RefreshEffect(r)
            /\ refreshes' = Append(refreshes, r.error)
            /\ IF r.error = ""
               THEN /\ sent' = Append(sent, r.access_token)
                    /\ responses' = Append(responses, response)
                    /\ FinishAfter(log \o <<"refresh", "retry">>,
                                   IF IsSuccess(response.status)
                                   THEN Returned(response) ELSE AuthFailure)
               ELSE /\ FinishAfter(Append(log, "refresh"), AuthFailure)
                    /\ UNCHANGED <<sent, responses>>
    /\ UNCHANGED <<caller, valid, profile_name>>

\* ------------------------------------------------------------ the remote

\* The keys of the negotiations the platform can hold: vacancy and resume.
RemoteKeys == Vacancies \X Resumes

\* The item /negotiations returns for the platform's negotiation k.
RemoteItem(k) ==
    [vacancy_id |-> k[1],
     resume_id |-> k[2],
     state_id |-> remote[k].state,
     state_code |-> NoneStr,
     state_name |-> NoneStr,
     status |-> NoneStr,
     updated_at |-> IsoFormat(remote[k].updated_at)]

\* The platform records a change of negotiation k (the employer answers, or
\* the user applies on the web site) at the current instant.
PlatformChange(k, state) ==
    /\ IF k \in DOMAIN remote
       THEN remote[k] # [state |-> state, updated_at |-> now]
       ELSE TRUE
    /\ remote' = [j \in DOMAIN remote \cup {k} |->
                    IF j = k THEN [state |-> state, updated_at |-> now] ELSE remote[j]]

\* The negotiations GET /negotiations selects for prm: all of them, or with
\* date_from those updated at or after it.
Selected(prm) ==
    {k \in DOMAIN remote :
        IF "date_from" \in DOMAIN prm
        THEN remote[k].updated_at >= FromIsoFormat(prm.date_from)
        ELSE TRUE}

\* order_by = updated_at: the selected negotiations, oldest change first
\* (negotiations changed at the same instant in a fixed order).
Ordered(keys) ==
    CHOOSE s \in [1..Cardinality(keys) -> keys] :
        /\ \A i, j \in DOMAIN s : i # j => s[i] # s[j]
        /\ \A i, j \in DOMAIN s : i < j => remote[s[i]].updated_at <= remote[s[j]].updated_at

\* The number of pages of n items.
PageCount(n) == (n + PerPage - 1) \div PerPage

\* The JSON body GET /negotiations answers for prm: the items of page
\* prm.page and the number of pages.
NegotiationsPage(prm) ==
    LET s == Ordered(Selected(prm))
        first == prm.page * PerPage + 1
        last == IF (prm.page + 1) * PerPage < Len(s) THEN (prm.page + 1) * PerPage ELSE Len(s)
    IN [items |-> [i \in 1..(IF last >= first THEN last - first + 1 ELSE 0) |->
                      RemoteItem(s[first + i - 1])],
        pages |-> PageCount(Len(s))]

\* The responses the remote may give to the sync's GET /negotiations.
SyncResponses ==
    {[status |-> 200, body |-> NegotiationsPage(params)],
     [status |-> 401, body |-> [text |-> "unauthorized"]],
     [status |-> 500, body |-> [text |-> "server error"]]}

\* The responses the remote may give to the running call's resource request.
Responses == IF caller = "sync" THEN SyncResponses ELSE PlainResponses

\* ------------------------------------------------------ history sync engine

\* The key of app_state that holds profile's watermark.
SyncKey(profile) == <<"last_negotiation_sync_", profile>>

\* database.get_last_sync_timestamp: the instant stored, or None.
get_last_sync_timestamp(state, profile) ==
    IF SyncKey(profile) \in DOMAIN state
    THEN FromIsoFormat(state[SyncKey(profile)])
    ELSE NoTime

\* database.set_last_sync_timestamp: the text of the instant is stored.
set_last_sync_timestamp(state, profile, timestamp) ==
    [key \in DOMAIN state \cup {SyncKey(profile)} |->
        IF key = SyncKey(profile) THEN IsoFormat(timestamp) ELSE state[key]]

\* The params sync_negotiation_history starts with (order_by and per_page
\* are fixed): date_from only when a watermark is stored.
StartParams(last_sync) ==
    IF last_sync # NoTime
    THEN [page |-> 0, date_from |-> IsoFormat(last_sync)]
    ELSE [page |-> 0]

\* No sync run has been started.
NoRun ==
    [started_at |-> NoTime, wm_before |-> NoTime, outcome |-> "none", after_failure |-> FALSE]

\* sync_negotiation_history is left: its locals are gone.
SyncReturn ==
    /\ params' = [page |-> 0]
    /\ all_items' = <<>>

\* sync_negotiation_history, lines 195-203: the watermark is read once.
SyncStart ==
    /\ spc = "idle"
    /\ rpc = "idle"
    /\ params' = StartParams(get_last_sync_timestamp(app_state, profile_name))
    /\ all_items' = <<>>
    /\ spc' = "page"
    /\ run' = [started_at |-> now,
               wm_before |-> get_last_sync_timestamp(app_state, profile_name),
               outcome |-> "running",
               after_failure |-> run.outcome \in {"http_error", "raised"}]

\* Lines 205-208: the request for page params.page.
SyncRequestPage ==
    /\ spc = "page"
    /\ Enter("sync")
    /\ spc' = "await"
    /\ UNCHANGED <<params, all_items, run>>

\* SyncPageOk with the walk ended one page late: page >= pages.
SyncPageOkOneMore ==
    /\ spc = "await"
    /\ rpc = "done"
    /\ result.kind = "ok"
    /\ all_items' = all_items \o result.value.items
    /\ IF params.page >= result.value.pages
       THEN /\ spc' = "save"
            /\ UNCHANGED params
       ELSE /\ spc' = "page"
            /\ params' = [params EXCEPT !.page = @ + 1]
    /\ Leave
    /\ UNCHANGED run

\* Lines 209-212: a page arrived; its items are kept in memory and the walk
\* goes on to the next page, or ends the loop after the last one.
SyncPageOk ==
    /\ spc = "await"
    /\ rpc = "done"
    /\ result.kind = "ok"
    /\ all_items' = all_items \o result.value.items
    /\ IF params.page >= result.value.pages - 1
       THEN /\ spc' = "save"
            /\ UNCHANGED params
       ELSE /\ spc' = "page"
            /\ params' = [params EXCEPT !.page = @ + 1]
    /\ Leave
    /\ UNCHANGED run

\* Lines 213-215: requests.HTTPError on a page: logged, and the run returns.
SyncPageHTTPError ==
    /\ spc = "await"
    /\ rpc = "done"
    /\ result.kind = "HTTPError"
    /\ spc' = "idle"
    /\ run' = [run EXCEPT !.outcome = "http_error"]
    /\ Leave
    /\ SyncReturn

\* The ConnectionError of _request is no requests.HTTPError: it leaves
\* sync_negotiation_history as an exception.
SyncPageRaised ==
    /\ spc = "await"
    /\ rpc = "done"
    /\ result.kind = "ConnectionError"
    /\ spc' = "idle"
    /\ run' = [run EXCEPT !.outcome = "raised"]
    /\ Leave
    /\ SyncReturn

\* Lines 216-223: after the loop, all the items are upserted in one call and
\* the watermark is set to datetime.now().
SyncFinish ==
    /\ spc = "save"
    /\ negotiation_history' =
          IF all_items # <<>>
          THEN upsert_negotiation_history(negotiation_history, all_items, profile_name)
          ELSE negotiation_history
    /\ app_state' = set_last_sync_timestamp(app_state, profile_name, now)
    /\ spc' = "idle"
    /\ run' = [run EXCEPT !.outcome = "ok"]
    /\ SyncReturn

\* What the caller of sync_negotiation_history gets from a run that ended as
\* outcome: the return at line 215 and the end of the function after line
\* 223 both give None; the ConnectionError of _request leaves it raised.
SyncReport(outcome) ==
    IF outcome = "raised"
    THEN [kind |-> "raised", value |-> "ConnectionError"]
    ELSE [kind |-> "returned", value |-> None]

\* The state of the sync engine when the model does not run it.
IdleSync ==
    /\ spc = "idle"
    /\ params = [page |-> 0]
    /\ all_items = <<>>
    /\ run = NoRun

\* ------------------------------------------------------------------- cache

\* max_age_days of get_dictionary_from_cache, timedelta(days=7) of
\* get_vacancy_from_cache. Where the cache is studied, instants count days.
MaxAgeDays == 7

\* The last day the clock reaches where the cache is studied.
MaxDay == 9

\* json.dumps(data)
JsonDumps(data) == <<"json", data>>

\* json.loads(text)
JsonLoads(text) == text[2]

\* bool(value) for what _request returns: None is falsy, a JSON object with
\* content is truthy.
Truthy(value) == value # NoneDict

\* The name cache_dictionaries keeps the dictionaries under.
MainDictionaries == "main_dictionaries"

\* The rows of table that the cache query selects for key at instant t:
\* those of the key with cached_at >= t - 7 days.
FreshRows(table, key, t) ==
    {row \in table : row.key = key /\ row.cached_at >= t - MaxAgeDays}

\* INSERT ... ON CONFLICT (key) DO UPDATE SET json_data, cached_at.
CacheUpsert(table, key, data, t) ==
    {row \in table : row.key # key}
    \cup {[key |-> key, json_data |-> JsonDumps(data), cached_at |-> t]}

\* The query of a cache read for key at instant t: the stored value, or None.
CacheSelect(table, key, t) ==
    IF FreshRows(table, key, t) = {} THEN NoneDict
    ELSE JsonLoads((CHOOSE row \in FreshRows(table, key, t) : TRUE).json_data)

\* database.save_vacancy_to_cache at instant t.
save_vacancy_to_cache(table, vacancy_id, vacancy_data, t) ==
    CacheUpsert(table, vacancy_id, vacancy_data, t)

\* database.save_dictionary_to_cache at instant t.
save_dictionary_to_cache(table, name, data, t) == CacheUpsert(table, name, data, t)

\* database.get_vacancy_from_cache at instant t.
get_vacancy_from_cache(table, vacancy_id, t) == CacheSelect(table, vacancy_id, t)

\* database.get_dictionary_from_cache at instant t.
get_dictionary_from_cache(table, name, t) == CacheSelect(table, name, t)

\* The outcomes of the GET behind a cache miss: what _request returns or
\* raises.
FetchOutcomes ==
    {Returned(r) : r \in {p \in PlainResponses : IsSuccess(p.status)}}
    \cup {ApiFailure(r) : r \in {p \in PlainResponses : p.status \in {404, 500}}}
    \cup {AuthFailure}

\* No live fetch is running.
NoFetch == [kind |-> "none", key |-> None]

\* What is remembered of a cache read of key in table at instant t: the age
\* of the key's row (NoTime without a row), whether the caller served the
\* cached value, and how the live fetch it made ended ("none": no fetch yet).
CacheRead(kind, table, key, t, served, fetch) ==
    [kind |-> kind, key |-> key,
     age |-> IF \E row \in table : row.key = key
             THEN t - (CHOOSE row \in table : row.key = key).cached_at
             ELSE NoTime,
     served |-> served, fetch |-> fetch]

\* No cache read has been made.
NoCacheRead ==
    [kind |-> "none", key |-> None, age |-> NoTime, served |-> FALSE, fetch |-> "none"]

\* VacancyListScreen.update_vacancy_details: the cached details are shown
\* when the read gives a truthy value, else the fetch worker is started.
update_vacancy_details(vacancy_id) ==
    LET cached == get_vacancy_from_cache(vacancy_cache, vacancy_id, now)
    IN /\ cache_pc = NoFetch
       /\ cache_read' = CacheRead("vacancy", vacancy_cache, vacancy_id, now,
                                  Truthy(cached), "none")
       /\ cache_pc' = IF Truthy(cached) THEN NoFetch
                      ELSE [kind |-> "vacancy", key |-> vacancy_id]
       /\ UNCHANGED <<vacancy_cache, dictionaries_cache>>

\* fetch_vacancy_details caching a placeholder when the fetch failed.
fetch_vacancy_details_placeholder(outcome) ==
    /\ cache_pc.kind = "vacancy"
    /\ vacancy_cache' =
          save_vacancy_to_cache(
              vacancy_cache, cache_pc.key,
              IF outcome.kind = "ok" THEN outcome.value ELSE [text |-> "error"], now)
    /\ cache_read' = [cache_read EXCEPT !.fetch = IF outcome.kind = "ok" THEN "ok" ELSE "failed"]
    /\ cache_pc' = NoFetch
    /\ UNCHANGED dictionaries_cache

\* VacancyListScreen.fetch_vacancy_details when get_vacancy_details ended as
\* outcome: the details are saved and shown, or the error is shown.
fetch_vacancy_details(outcome) ==
    /\ cache_pc.kind = "vacancy"
    /\ IF outcome.kind = "ok"
       THEN /\ vacancy_cache' =
                  save_vacancy_to_cache(vacancy_cache, cache_pc.key, outcome.value, now)
            /\ cache_read' = [cache_read EXCEPT !.fetch = "ok"]
       ELSE /\ UNCHANGED vacancy_cache
            /\ cache_read' = [cache_read EXCEPT !.fetch = "failed"]
    /\ cache_pc' = NoFetch
    /\ UNCHANGED dictionaries_cache

\* HHCliApp.cache_dictionaries, lines 997-1020, when get_dictionaries (if it
\* is called) ended as outcome.
cache_dictionaries(outcome) ==
    LET cached_dicts == get_dictionary_from_cache(dictionaries_cache, MainDictionaries, now)
        read(fetch) == CacheRead("dictionary", dictionaries_cache, MainDictionaries, now,
                                 Truthy(cached_dicts), fetch)
    IN /\ cache_pc = NoFetch
       /\ IF Truthy(cached_dicts)
          THEN /\ cache_read' = read("none")
               /\ UNCHANGED dictionaries_cache
          ELSE IF outcome.kind = "ok"
          THEN /\ dictionaries_cache' = save_dictionary_to_cache(
                                            dictionaries_cache, MainDictionaries,
                                            outcome.value, now)
               /\ cache_read' = read("ok")
          ELSE /\ cache_read' = read("failed")
               /\ UNCHANGED dictionaries_cache
       /\ UNCHANGED <<vacancy_cache, cache_pc>>

\* The cache is empty and unused.
IdleCache ==
    /\ vacancy_cache = {}
    /\ dictionaries_cache = {}
    /\ cache_pc = NoFetch
    /\ cache_read = NoCacheRead

\* ------------------------------------------------------------ authorization

\* The local profile names given to --auth.
AuthProfiles == {"p1", "p2"}

\* The remote accounts that log in.
Users == {"u1", "u2"}

\* What the token endpoint may answer to an authorization code: as to a
\* refresh grant, or another pair of new tokens.
AuthAnswers == TokenAnswers \cup {[access_token |-> 3, refresh_token |-> 3]}

\* What GET /me may answer: an error, or the account that logged in.
MeAnswers == {[rejected |-> TRUE]} \cup {[id |-> u, email |-> ""] : u \in Users}

\* No authorization has been saved.
NoAuthorization == [profile_name |-> None, hh_user_id |-> None, renamed_from |-> None]

\* The most codes one "--auth" process is seen to exchange.
MaxExchanges == 2

\* request.args.get("code"): the code of the callback request, an empty one,
\* or None.
AuthCodes == {"code", "", None}

\* "not code" of line 79
NotCode(code) == code \in {None, ""}

\* No request to /oauth_callback has been answered.
NoCallback == [status |-> 0, text |-> <<"">>, cause |-> "none"]

\* The f-string of line 94, "an error occurred while getting the token: {e}",
\* with e the exception raised by the request named which.
TokenErrorText(which) == <<"error while getting the token: ", which>>

\* AppStateKeys.ACTIVE_PROFILE, the key of app_state's active-profile pointer.
ActiveKey == <<"active_profile">>

\* database.set_active_profile
set_active_profile(state, profile) ==
    [key \in DOMAIN state \cup {ActiveKey} |->
        IF key = ActiveKey THEN profile ELSE state[key]]

\* database.get_active_profile_name
get_active_profile_name(state) ==
    IF ActiveKey \in DOMAIN state THEN state[ActiveKey] ELSE None

\* database.delete_profile
delete_profile(table, profile) == {row \in table : row.profile_name # profile}

\* main.run, lines 28-29, and authorize, lines 71-101: a new client, named
\* before the listener is started and the browser opened; authorize then
\* waits for the event.
AuthorizeStart(name) ==
    /\ listener = "off"
    /\ listener' = "listening"
    /\ exchanged' = 0
    /\ callback_response' = NoCallback
    /\ profile_name' = name
    /\ access_token' = NoToken
    /\ refresh_token' = NoToken
    /\ token_expires_at' = NoTime
    /\ UNCHANGED <<profiles, auth_log>>

\* oauth_callback with the event set on a failed exchange as well.
oauth_callback_signalling(code, answer, me) ==
    /\ listener # "off"
    /\ exchanged < MaxExchanges
    /\ callback_response' =
          IF NotCode(code) THEN [status |-> 400, text |-> <<"no code">>, cause |-> "no_code"]
          ELSE [status |-> 500, text |-> TokenErrorText("token"), cause |-> "token_failed"]
    /\ listener' = IF NotCode(code) THEN listener ELSE "signalled"
    /\ UNCHANGED <<profiles, access_token, refresh_token, token_expires_at,
                   auth_log, exchanged, profile_name>>

\* authorize's oauth_callback, lines 77-94, served while the process of
\* authorize lives: without a code it answers 400; else the code is
\* exchanged, /me is asked, and _save_token stores the tokens under the user
\* id /me gave, the event is set and the answer is the success page. A
\* requests exception is answered 500 with its text; any other exception
\* (of the save) is answered by Flask with its own 500 page. Nothing is
\* stored unless the save succeeded.
oauth_callback(code, answer, me) ==
    /\ listener # "off"
    /\ exchanged < MaxExchanges
    /\ IF NotCode(code)
       THEN /\ callback_response' =
                  [status |-> 400, text |-> <<"no code">>, cause |-> "no_code"]
            /\ UNCHANGED <<profiles, access_token, refresh_token, token_expires_at,
                           auth_log, listener, exchanged>>
       ELSE IF "rejected" \in DOMAIN answer \/ "rejected" \in DOMAIN me
       THEN /\ callback_response' =
                  IF "rejected" \in DOMAIN answer
                  THEN [status |-> 500, text |-> TokenErrorText("token"),
                        cause |-> "token_failed"]
                  ELSE [status |-> 500, text |-> TokenErrorText("me"), cause |-> "me_failed"]
            /\ UNCHANGED <<profiles, access_token, refresh_token, token_expires_at,
                           auth_log, listener, exchanged>>
       ELSE LET r == _save_token(answer, me)
                before == {row \in profiles : row.hh_user_id = me.id}
            IN /\ RefreshEffect(r)
               /\ IF r.error # ""
                  THEN /\ callback_response' =
                             [status |-> 500, text |-> <<"Internal Server Error">>,
                              cause |-> "save_failed"]
                       /\ UNCHANGED <<auth_log, listener, exchanged>>
                  ELSE /\ callback_response' =
                             [status |-> 200, text |-> <<"success">>, cause |-> "ok"]
                       /\ listener' = IF listener = "listening" THEN "signalled" ELSE listener
                       /\ exchanged' = exchanged + 1
                       /\ auth_log' =
                             [profile_name |-> profile_name,
                              hh_user_id |-> me.id,
                              renamed_from |->
                                  IF before = {} THEN None
                                  ELSE (CHOOSE row \in before : TRUE).profile_name]
    /\ UNCHANGED profile_name

\* main.run, line 31: authorize has returned, the profile is made active.
main_set_active ==
    /\ listener = "signalled"
    /\ listener' = "activated"
    /\ app_state' = set_active_profile(app_state, profile_name)

\* main.run, lines 33-40: the process of "--auth" returns, and its listener
\* thread, a daemon, ends with it.
main_return ==
    /\ listener = "activated"
    /\ listener' = "off"

\* HHApiClient.logout(profile)
logout(profile) ==
    /\ profiles' = delete_profile(profiles, profile)
    /\ access_token' = IF profile_name = profile THEN NoToken ELSE access_token

\* No authorization is under study.
IdleAuth ==
    /\ auth_log = NoAuthorization
    /\ listener = "off"
    /\ callback_response = NoCallback
    /\ exchanged = 0

\* The sync run's page requests are not recorded.
IdleWalk == walk = <<>>

\* ------------------------------------------------------------ application

\* The instances of the application started on one database (two terminals).
Instances == {1, 2}

\* HHCliApp.proceed_with_profile of instance i, lines 959-977: the SyncWorker
\* is started with run_worker on sync_negotiation_history, whatever else is
\* running.
proceed_with_profile(i, name) ==
    /\ app' = [app EXCEPT ![i] = "running"]
    /\ sync_worker' = [sync_worker EXCEPT ![i] = name]

\* main.run, lines 42-60, and HHCliApp.on_mount of instance i: the active
\* profile must load; with one stored profile it is made active and used at
\* once, with several the selection screen is shown.
on_mount(i) ==
    /\ app[i] = "off"
    /\ sync_worker[i] = None
    /\ get_active_profile_name(app_state) # None
    /\ load_profile(profiles, get_active_profile_name(app_state)) # NoneDict
    /\ IF Cardinality(profiles) = 1
       THEN LET name == (CHOOSE row \in profiles : TRUE).profile_name
            IN /\ app_state' = set_active_profile(app_state, name)
               /\ proceed_with_profile(i, name)
       ELSE /\ app' = [app EXCEPT ![i] = "select"]
            /\ UNCHANGED <<app_state, sync_worker>>

\* ProfileSelectionScreen.on_data_table_row_selected and
\* HHCliApp.on_profile_selected of instance i: the chosen profile is made
\* active and used.
on_profile_selected(i, name) ==
    /\ app[i] = "select"
    /\ app_state' = set_active_profile(app_state, name)
    /\ proceed_with_profile(i, name)

\* sync_negotiation_history of instance i returns or raises: its worker ends.
sync_worker_ends(i) ==
    /\ sync_worker[i] # None
    /\ sync_worker' = [sync_worker EXCEPT ![i] = None]
    /\ UNCHANGED <<app, app_state>>

\* The user quits instance i; its process lasts until its worker has ended.
action_quit(i) ==
    /\ app[i] # "off"
    /\ app' = [app EXCEPT ![i] = "off"]
    /\ UNCHANGED <<sync_worker, app_state>>

\* No instance of the application is running.
IdleApp ==
    /\ app = [i \in Instances |-> "off"]
    /\ sync_worker = [i \in Instances |-> None]

\* ------------------------------------------------------------ apply action

\* bool(response) for a requests.Response: Response.__bool__ is response.ok,
\* false for every status of 400 and above.
ResponseBool(status) == status < 400

\* A Python string given by its parts (a literal, or a literal and a number).
Text(part) == <<part>>

\* f"http_{status_code}"
HttpReason(status) == <<"http_", status>>

\* The error bodies POST /negotiations may answer with: JSON with an errors
\* array whose first element has a type, or has none; JSON with an empty
\* errors array; JSON without errors; a body that is not JSON.
ApplyErrorBodies ==
    {[json |-> TRUE, errors |-> <<[type |-> "already_applied"]>>],
     [json |-> TRUE, errors |-> <<[type |-> "test_required"], [type |-> "limit_exceeded"]>>],
     [json |-> TRUE, errors |-> <<[value |-> "no_type"]>>],
     [json |-> TRUE, errors |-> <<>>],
     [json |-> TRUE],
     [json |-> FALSE]}

\* The outcomes of self._request("POST", "/negotiations", ...): a return, an
\* HTTP error carrying its response, or the ConnectionError of _request.
ApplyOutcomes ==
    {Returned(r) : r \in {p \in PlainResponses : IsSuccess(p.status)}}
    \cup {ApiFailure([status |-> st, body |-> b]) : st \in {400, 403, 500}, b \in ApplyErrorBodies}
    \cup {AuthFailure}

\* The reason apply_to_vacancy reads from the body of an error response:
\* error_data.get("errors", [{}])[0].get("type", "unknown_api_error"), and
\* http_<status> when anything in that raises.
BodyReason(status, body) ==
    IF ~body.json THEN HttpReason(status)
    ELSE LET errors == IF "errors" \in DOMAIN body THEN body.errors ELSE <<EmptyDict>>
         IN IF errors = <<>> THEN HttpReason(status)
            ELSE IF "type" \in DOMAIN errors[1] THEN Text(errors[1].type)
            ELSE Text("unknown_api_error")

\* HHApiClient.apply_to_vacancy once _request ended as outcome: the pair it
\* returns, or the exception that leaves it.
apply_to_vacancy(outcome) ==
    IF outcome.kind = "ok" THEN [ok |-> TRUE, reason |-> Text("applied")]
    ELSE IF outcome.kind = "HTTPError"
    THEN [ok |-> FALSE,
          reason |-> IF ResponseBool(outcome.status)
                     THEN BodyReason(outcome.status, outcome.value)
                     ELSE Text("unknown_error")]
    ELSE [raised |-> outcome.kind]

\* ------------------------------------------------------ vacancy list screen

\* The vacancies of the list on the screen.
ScreenVacancies == {"v1", "v2", "v3"}

\* The widget #vacancy_details before anything is shown in it.
NoPane == [kind |-> "empty", vacancy_id |-> None]

\* VacancyListScreen.display_vacancy_details, called while pending is the
\* pending id: the pane after it. It returns at once for a vacancy that is
\* not the pending one; details that are None make it raise.
display_vacancy_details(pending, pane, details, vacancy_id) ==
    IF pending # vacancy_id THEN [raised |-> FALSE, pane |-> pane]
    ELSE IF details = NoneDict THEN [raised |-> TRUE, pane |-> pane]
    ELSE [raised |-> FALSE, pane |-> [kind |-> "details", vacancy_id |-> vacancy_id]]

\* The text "error while loading: {exc}" written by fetch_vacancy_details for
\* vacancy_id.
ErrorPane(vacancy_id) == [kind |-> "error", vacancy_id |-> vacancy_id]

\* VacancyListScreen.load_vacancy_details and update_vacancy_details: the
\* vacancy becomes the pending one; cached details are displayed, else
\* "loading" is shown and a thread worker is started. exclusive=True cancels
\* the workers started before, but a thread that is blocked in the request
\* goes on and still delivers what it got.
load_vacancy_details(vacancy_id) ==
    LET cached == get_vacancy_from_cache(vacancy_cache, vacancy_id, now)
    IN /\ pending_details_id' = vacancy_id
       /\ IF Truthy(cached)
          THEN /\ details_pane' =
                     display_vacancy_details(vacancy_id, details_pane, cached, vacancy_id).pane
               /\ UNCHANGED fetch_workers
          ELSE /\ details_pane' = [kind |-> "loading", vacancy_id |-> vacancy_id]
               /\ fetch_workers' = fetch_workers \cup {vacancy_id}
       /\ UNCHANGED vacancy_cache

\* The thread of VacancyListScreen.fetch_vacancy_details(vacancy_id) ends,
\* get_vacancy_details having ended as outcome: the details are saved and
\* display_vacancy_details is called on the UI thread; an exception, of the
\* fetch or of the display, has its text written into the pane.
fetch_vacancy_details_worker(vacancy_id, outcome) ==
    /\ vacancy_id \in fetch_workers
    /\ fetch_workers' = fetch_workers \ {vacancy_id}
    /\ IF outcome.kind = "ok"
       THEN LET shown == display_vacancy_details(pending_details_id, details_pane,
                                                 outcome.value, vacancy_id)
            IN /\ vacancy_cache' =
                     save_vacancy_to_cache(vacancy_cache, vacancy_id, outcome.value, now)
               /\ details_pane' = IF shown.raised THEN ErrorPane(vacancy_id) ELSE shown.pane
       ELSE /\ details_pane' = ErrorPane(vacancy_id)
            /\ UNCHANGED vacancy_cache
    /\ UNCHANGED pending_details_id

\* The number of parameters of database.record_apply_action, none of which
\* has a default.
RecordApplyActionParams == 8

\* record_apply_action(*args) at instant t: Python binds the positional
\* arguments first and raises TypeError when required parameters are left
\* without a value; else the body runs (the titles and the employer name are
\* not kept in the model's rows). [error, table].
CallRecordApplyAction(table, args, t) ==
    IF Len(args) # RecordApplyActionParams
    THEN [error |-> "TypeError", table |-> table]
    ELSE [error |-> "",
          table |-> record_apply_action(table, args[1], args[2], args[3], args[7], args[8], t)]

\* The user toggles a vacancy of the list.
toggle_current(vacancy_id) ==
    /\ apply_pc # "running"
    /\ selected_vacancies' =
          IF vacancy_id \in selected_vacancies
          THEN selected_vacancies \ {vacancy_id}
          ELSE selected_vacancies \cup {vacancy_id}
    /\ UNCHANGED <<apply_pc, apply_todo, apply_attempts, negotiation_history>>

\* action_apply_for_selected and on_apply_confirmed(True): with a selection,
\* the worker of run_apply_worker is started; its loop runs over
\* list(self.selected_vacancies), a set in some order.
on_apply_confirmed ==
    /\ apply_pc # "running"
    /\ selected_vacancies # {}
    /\ apply_pc' = "running"
    /\ \E todo \in [1..Cardinality(selected_vacancies) -> selected_vacancies] :
          /\ \A i, j \in DOMAIN todo : i # j => todo[i] # todo[j]
          /\ apply_todo' = todo
    /\ apply_attempts' = <<>>
    /\ UNCHANGED <<selected_vacancies, negotiation_history>>

\* One pass of the loop of run_apply_worker, the _request of apply_to_vacancy
\* ending as outcome, and finalize after the last pass: apply_to_vacancy,
\* then record_apply_action called with six positional arguments (vacancy
\* id, profile name, title, employer, status, reason). An exception ends the
\* worker; finalize clears the selection.
run_apply_worker(outcome) ==
    /\ apply_pc = "running"
    /\ IF Len(apply_attempts) = Len(apply_todo)
       THEN /\ selected_vacancies' = {}
            /\ apply_pc' = "finished"
            /\ UNCHANGED <<apply_attempts, negotiation_history>>
       ELSE LET vacancy_id == apply_todo[Len(apply_attempts) + 1]
                answer == apply_to_vacancy(outcome)
                args == IF "raised" \in DOMAIN answer THEN <<>>
                        ELSE IF answer.ok
                        THEN <<vacancy_id, profile_name, vacancy_id, None, S_applied, NoneStr>>
                        ELSE <<vacancy_id, profile_name, vacancy_id, None, S_failed,
                               answer.reason>>
                saved == CallRecordApplyAction(negotiation_history, args, now)
            IN /\ apply_attempts' = Append(apply_attempts, vacancy_id)
               /\ IF "raised" \in DOMAIN answer
                  THEN /\ apply_pc' = "crashed"
                       /\ UNCHANGED negotiation_history
                  ELSE /\ negotiation_history' = saved.table
                       /\ apply_pc' = IF saved.error # "" THEN "crashed" ELSE "running"
               /\ UNCHANGED selected_vacancies
    /\ UNCHANGED apply_todo

\* The screen shows nothing, nothing is selected and no worker runs.
IdleScreen ==
    /\ pending_details_id = None
    /\ details_pane = NoPane
    /\ fetch_workers = {}
    /\ selected_vacancies = {}
    /\ apply_pc = "idle"
    /\ apply_todo = <<>>
    /\ apply_attempts = <<>>

\* ------------------------------------------------- threads on one client

\* The threads proceed_with_profile sets going on self.client: the two
\* workers and its own call of get_my_resumes.
Workers == {"DictCacheWorker", "SyncWorker", "get_my_resumes"}

\* A thread enters _request (get_dictionaries with no cached dictionaries,
\* the first page of the sync, get_my_resumes).
worker_starts(w) ==
    /\ worker_pc[w] = "ready"
    /\ worker_pc' = [worker_pc EXCEPT ![w] = "validate"]
    /\ UNCHANGED <<grants, clientVars, profiles>>

\* Line 104 in thread w: the credentials are read, under no lock.
worker_validates(w) ==
    /\ worker_pc[w] = "validate"
    /\ worker_pc' = [worker_pc EXCEPT ![w] = IF is_authenticated THEN "call" ELSE "refresh"]
    /\ UNCHANGED <<grants, clientVars, profiles>>

\* _refresh_token, lines 53-59, in thread w: without a refresh token it
\* raises; else the grant is posted with the refresh token the client holds
\* at that moment, and the thread waits for the answer.
worker_posts_grant(w) ==
    /\ worker_pc[w] \in {"refresh", "refresh401"}
    /\ IF refresh_token = NoToken
       THEN /\ worker_pc' = [worker_pc EXCEPT ![w] = "failed"]
            /\ UNCHANGED grants
       ELSE /\ worker_pc' = [worker_pc EXCEPT ![w] =
                                 IF worker_pc[w] = "refresh" THEN "posted" ELSE "posted401"]
            /\ grants' = Append(grants, [worker |-> w, refresh_token |-> refresh_token])
    /\ UNCHANGED <<clientVars, profiles>>

\* _refresh_token, lines 60-68, in thread w: the token endpoint answers the
\* grant of w; a failure ends the _request of w with ConnectionError.
worker_gets_answer(w, answer) ==
    /\ worker_pc[w] \in {"posted", "posted401"}
    /\ LET r == _refresh_token(answer)
       IN /\ RefreshEffect(r)
          /\ worker_pc' = [worker_pc EXCEPT ![w] =
                               IF r.error # "" THEN "failed"
                               ELSE IF worker_pc[w] = "posted" THEN "call" ELSE "retry"]
    /\ UNCHANGED <<grants, profile_name>>

\* Lines 109-130 in thread w: the resource request, or its retry, is
\* answered by response.
worker_calls(w, response) ==
    /\ worker_pc[w] \in {"call", "retry"}
    /\ worker_pc' = [worker_pc EXCEPT ![w] =
                         IF IsSuccess(response.status) THEN "done"
                         ELSE IF response.status = 401 /\ worker_pc[w] = "call"
                         THEN "refresh401"
                         ELSE "failed"]
    /\ UNCHANGED <<grants, clientVars, profiles>>

\* No thread has entered _request and no grant was posted.
IdleWorkers ==
    /\ worker_pc = [w \in Workers |-> "ready"]
    /\ grants = <<>>

\* ---------------------------------------------------------- function calls

\* The longest history list _collect_delivered is given.
MaxHistory == 2

\* The resumes of the histories: a vacancy approached with two resumes.
HistoryResumes == {"r1", "r2"}

\* The statuses of the rows of the histories.
HistoryStatuses == {S_applied, S_failed, S_rejected, S_response}

\* The rows negotiation_history can hold for the histories.
HistoryRows ==
    {[vacancy_id |-> v, profile_name |-> "p1", resume_id |-> r, status |-> s,
      reason |-> NoneStr, was_delivered |-> _status_was_delivered(s), applied_at |-> t] :
        v \in Vacancies, r \in HistoryResumes, s \in HistoryStatuses, t \in 0..MaxTime}

\* The lists get_full_negotiation_history_for_profile can return: rows of
\* distinct keys, by applied_at descending.
Histories ==
    {h \in UNION {[1..n -> HistoryRows] : n \in 0..MaxHistory} :
        /\ \A i, j \in DOMAIN h : i # j => RowKey(h[i]) # RowKey(h[j])
        /\ \A i, j \in DOMAIN h : i < j => h[i].applied_at >= h[j].applied_at}

\* The status values _status_was_delivered is given: None, empty, blank,
\* padded and upper-case spellings, words of both vocabularies, words that
\* only start with a delivered prefix, and other words.
StatusInputs ==
    {NoneStr, EmptyStr, <<" ">>, <<" ", "\t">>,
     S_applied, <<" ">> \o S_applied \o <<" ">>, <<"A", "P", "P", "L", "I", "E", "D">>,
     S_failed, <<"F", "a", "i", "l", "e", "d">> \o <<"\n">>,
     S_response, S_responded, S_invited, S_offer,
     S_offer \o <<"_">> \o S_rejected, S_invited \o <<"2">>,
     S_failed \o <<"_">> \o S_applied,
     S_rejected, S_discard, S_unknown, <<"x">> \o S_applied}

\* The vacancies of the records given to _collect_delivered in any order.
ReduceVacancies == {"v1", "v2"}

\* Those records: rows of negotiation_history, each with its applied_at.
ReduceRows ==
    {[vacancy_id |-> v, profile_name |-> "p1", resume_id |-> r, status |-> s,
      reason |-> NoneStr, was_delivered |-> _status_was_delivered(s), applied_at |-> t] :
        v \in ReduceVacancies, r \in HistoryResumes,
        s \in {S_applied, S_failed, S_rejected}, t \in 0..MaxTime}

\* Lists of rows of distinct keys, in any order.
AnyOrderHistories ==
    {h \in UNION {[1..n -> ReduceRows] : n \in 1..MaxHistory} :
        \A i, j \in DOMAIN h : i # j => RowKey(h[i]) # RowKey(h[j])}

\* "Response"
S_Response == <<"R">> \o Tail(S_response)

\* "REJECTED"
S_REJECTED == <<"R", "E", "J", "E", "C", "T", "E", "D">>

\* "Discard"
S_Discard == <<"D">> \o Tail(S_discard)

\* The items of /negotiations given to upsert_negotiation_history: with and
\* without a vacancy id, with and without a resume, the state given by id,
\* by code, by name only, or not at all.
SyncItems ==
    {[vacancy_id |-> v, resume_id |-> r, state_id |-> st[1], state_code |-> st[2],
      state_name |-> st[3], status |-> NoneStr, updated_at |-> IsoFormat(1)] :
        v \in {"v1", None}, r \in {"r1", None},
        st \in {<<S_Response, NoneStr, S_Discard>>,
                <<S_Response, S_REJECTED, NoneStr>>,
                <<NoneStr, S_REJECTED, S_Discard>>,
                <<NoneStr, NoneStr, S_Discard>>,
                <<NoneStr, NoneStr, NoneStr>>}}

\* The tables the items are upserted into: empty, or with one row that the
\* apply path wrote at instant 0.
SyncTables ==
    {{}}
    \cup {record_apply_action({}, "v1", "p1", r, S_failed, NoneStr, 0) : r \in {"r1", None}}

\* A second local profile, of another account, on the same database.
OtherProfile == "p2"

\* The configuration the user saved for profile p1 on ConfigScreen.
SavedConfig ==
    [area_id |-> "1", text_include |-> {"Go developer", "SRE"}, role_ids_config |-> {"160"}]

\* The configuration tables after "--auth p1" and that save.
SavedConfigs ==
    save_profile_config(
        save_or_update_profile_configs(
            NoConfigs, {}, "p1", [id |-> "u1", email |-> ""],
            [access_token |-> 1, refresh_token |-> 1], DefaultExpiresIn),
        "p1", SavedConfig)

\* The calls under study.
FnInputs ==
    {[op |-> "_collect_delivered", history |-> h] : h \in Histories}
    \cup {[op |-> "_status_was_delivered", status |-> s] : s \in StatusInputs}
    \cup {[op |-> "apply_to_vacancy", outcome |-> o] : o \in ApplyOutcomes}
    \cup {[op |-> "processed_vacancies", history |-> h] : h \in AnyOrderHistories}
    \cup {[op |-> "upsert_negotiation_history", table |-> t, item |-> i] :
             t \in SyncTables, i \in SyncItems}
    \cup {[op |-> "upsert_for_other_profile", table |-> t, item |-> i] :
             t \in SyncTables, i \in SyncItems}
    \cup {[op |-> "reauthorize", name |-> n, me |-> m, answer |-> a] :
             n \in {"p1", "p2"},
             m \in {[id |-> "u1", email |-> ""], [id |-> "u2", email |-> ""]},
             a \in {[access_token |-> t, refresh_token |-> t] : t \in 2..(MaxTime + 1)}}
    \cup {[op |-> "record_for_other_profile", table |-> t, resume_id |-> r, status |-> st] :
             t \in SyncTables, r \in {"r1", None}, st \in {S_applied, S_failed}}

\* The call has not returned.
NotCalled == [done |-> FALSE]

\* The call returned value.
Called(value) == [done |-> TRUE, value |-> value]

\* No function call is under study.
IdleFn ==
    /\ fn_in = [op |-> "none"]
    /\ fn_out = NotCalled

\* ------------------------------------------------------------ specifications

\* The record the store is given for a key: what received keeps of it.
Given(status, t) == [status |-> status, applied_at |-> t]

\* No record given yet.
NotGiven == Given(NoneStr, NoTime)

\* received after the store was given rec for key k.
Remember(rcv, k, rec) == [rcv EXCEPT ![k] = rec]

RECURSIVE RememberBatch(_, _)
\* received after a batch of items, in the order of the batch.
RememberBatch(rcv, batch) ==
    IF batch = <<>> THEN rcv
    ELSE LET item == Head(batch)
             k == <<item.vacancy_id, ResumeKey(item.resume_id)>>
         IN RememberBatch(
                IF item.vacancy_id = None THEN rcv
                ELSE Remember(rcv, k, Given(ItemStatus(item), FromIsoFormat(item.updated_at))),
                Tail(batch))

vars ==
    <<now, clientVars, dbVars, storeVars, remote, reqVars, syncVars, extVars>>

\* The profiles row an earlier "--auth p1" left for remote user u1, its
\* access token expiring at expires_at.
StoredProfile(expires_at) ==
    [profile_name |-> "p1", hh_user_id |-> "u1", email |-> "",
     access_token |-> 1, refresh_token |-> 1, expires_at |-> expires_at]

\* HHApiClient.__init__: no token, no profile.
Constructed ==
    /\ access_token = NoToken
    /\ refresh_token = NoToken
    /\ token_expires_at = NoTime
    /\ profile_name = None

\* The client of main.run: constructed, then load_profile_data("p1").
Loaded ==
    /\ \E row \in profiles :
         /\ profile_name = row.profile_name
         /\ access_token = row.access_token
         /\ refresh_token = row.refresh_token
         /\ token_expires_at = row.expires_at

\* The database right after "--auth p1": one profile, nothing synced.
FreshDatabase ==
    /\ \E expires_at \in {1, 2, DefaultExpiresIn} : profiles = {StoredProfile(expires_at)}
    /\ app_state = EmptyDict
    /\ negotiation_history = {}
    /\ received = [k \in Keys |-> NotGiven]

\* Time passes.
Tick ==
    /\ now < MaxTime
    /\ now' = now + 1
    /\ UNCHANGED <<clientVars, dbVars, storeVars, remote, reqVars, syncVars, extVars>>

\* The platform changes a negotiation.
Platform ==
    /\ \E k \in RemoteKeys, state \in RemoteStates : PlatformChange(k, state)
    /\ UNCHANGED <<now, clientVars, dbVars, storeVars, reqVars, syncVars, extVars>>

\* load_profile_data(profile) between two calls.
LoadProfileData ==
    /\ rpc = "idle"
    /\ \E profile \in Profiles : load_profile_data(profile)
    /\ UNCHANGED <<now, dbVars, storeVars, remote, reqVars, syncVars, extVars>>

\* A caller other than the sync calls _request.
Execute ==
    /\ Enter("direct")
    /\ UNCHANGED <<now, clientVars, dbVars, storeVars, remote, syncVars, extVars>>

\* Line 104.
Validate ==
    /\ RequestValidate
    /\ UNCHANGED <<now, app_state, storeVars, remote, syncVars, extVars>>

\* Lines 105-108.
RefreshFirst ==
    /\ RequestRefreshFirst
    /\ UNCHANGED <<now, app_state, storeVars, remote, syncVars, extVars>>

\* Lines 109-117, 128-130.
Call ==
    /\ \E response \in Responses : RequestCall(response)
    /\ UNCHANGED <<now, app_state, storeVars, remote, syncVars, extVars>>

\* Lines 118-127.
On401 ==
    /\ \E response \in Responses : Request401(response)
    /\ UNCHANGED <<now, app_state, storeVars, remote, syncVars, extVars>>

\* The caller of Execute takes what _request returned or raised.
Return ==
    /\ rpc = "done"
    /\ caller = "direct"
    /\ Leave
    /\ UNCHANGED <<now, clientVars, dbVars, storeVars, remote, syncVars, extVars>>

Init ==
    /\ now = 0
    /\ IdleCache
    /\ IdleAuth
    /\ IdleFn
    /\ IdleWalk
    /\ IdleApp
    /\ IdleScreen
    /\ IdleWorkers
    /\ Constructed
    /\ FreshDatabase
    /\ remote = EmptyDict
    /\ IdleRequest
    /\ IdleSync

Next ==
    \/ Tick
    \/ LoadProfileData
    \/ Execute
    \/ Validate
    \/ RefreshFirst
    \/ Call
    \/ On401
    \/ Return

\* The request executor under calls of any caller but the sync.
Spec == Init /\ [][Next]_vars

\* sync_negotiation_history is started (the SyncWorker of proceed_with_profile).
StartSync ==
    /\ SyncStart
    /\ UNCHANGED <<now, clientVars, dbVars, storeVars, remote, reqVars, extVars>>

\* The sync asks for a page.
RequestPage ==
    /\ SyncRequestPage
    /\ UNCHANGED <<now, clientVars, dbVars, storeVars, remote, extVars>>

\* The page arrived.
PageOk ==
    /\ SyncPageOk
    /\ UNCHANGED <<now, clientVars, dbVars, storeVars, remote, extVars>>

\* PageHTTPError with the watermark advanced all the same.
PageHTTPErrorAdvancing ==
    /\ SyncPageHTTPError
    /\ app_state' = set_last_sync_timestamp(app_state, profile_name, now)
    /\ UNCHANGED <<now, clientVars, profiles, storeVars, remote, extVars>>

\* The page failed with requests.HTTPError.
PageHTTPError ==
    /\ SyncPageHTTPError
    /\ UNCHANGED <<now, clientVars, dbVars, storeVars, remote, extVars>>

\* The page failed with ConnectionError.
PageRaised ==
    /\ SyncPageRaised
    /\ UNCHANGED <<now, clientVars, dbVars, storeVars, remote, extVars>>

\* The walk ended: upsert and watermark.
FinishSync ==
    /\ SyncFinish
    /\ UNCHANGED <<now, clientVars, profiles, received, remote, reqVars, extVars>>

SyncInit ==
    /\ now = 0
    /\ IdleCache
    /\ IdleAuth
    /\ IdleFn
    /\ IdleWalk
    /\ IdleApp
    /\ IdleScreen
    /\ IdleWorkers
    /\ FreshDatabase
    /\ Loaded
    /\ remote = EmptyDict
    /\ IdleRequest
    /\ IdleSync

SyncNext ==
    \/ Tick
    \/ Platform
    \/ StartSync
    \/ RequestPage
    \/ Validate
    \/ RefreshFirst
    \/ Call
    \/ On401
    \/ PageOk
    \/ PageHTTPError
    \/ PageRaised
    \/ FinishSync

\* The history sync engine: sync runs of one profile, one after the other,
\* while time passes and the platform changes negotiations.
SpecSync == SyncInit /\ [][SyncNext]_vars

\* ------------------------------------------- history store: specification

\* The longest batch of items one call of upsert_negotiation_history is given.
MaxBatch == 2

\* The reason text the apply path records for a failed attempt.
S_reason == <<"A", "l", "r", "e", "a", "d", "y">>

\* The batches a sync can hand over: lists of distinct current remote items.
Batches ==
    {b \in UNION {[1..n -> DOMAIN remote] : n \in 1..MaxBatch} :
        \A i, j \in DOMAIN b : i # j => b[i] # b[j]}

\* upsert_negotiation_history(all_items, profile_name) on a batch of items.
StoreSync ==
    /\ \E b \in Batches :
         LET items == [i \in DOMAIN b |-> RemoteItem(b[i])]
         IN /\ negotiation_history' =
                  upsert_negotiation_history(negotiation_history, items, profile_name)
            /\ received' = RememberBatch(received, items)
    /\ UNCHANGED <<now, clientVars, dbVars, remote, reqVars, syncVars, extVars>>

\* record_apply_action after an apply attempt with one of the resumes: status
\* "applied" without a reason when the platform accepted it (and now holds
\* the negotiation), status "failed" with a reason otherwise.
StoreApply ==
    /\ \E k \in {j \in RemoteKeys : j[2] # None}, ok \in BOOLEAN :
         LET status == IF ok THEN S_applied ELSE S_failed
             reason == IF ok THEN NoneStr ELSE S_reason
         IN /\ ok => k \notin DOMAIN remote
            /\ negotiation_history' =
                  record_apply_action(
                      negotiation_history, k[1], profile_name, k[2], status, reason, now)
            /\ received' =
                  Remember(received, <<k[1], ResumeKey(k[2])>>,
                           Given(_normalize_status(status), now))
            /\ IF ok THEN PlatformChange(k, S_response) ELSE UNCHANGED remote
    /\ UNCHANGED <<now, clientVars, dbVars, reqVars, syncVars, extVars>>

StoreInit ==
    /\ now = 0
    /\ IdleCache
    /\ IdleAuth
    /\ IdleFn
    /\ IdleWalk
    /\ IdleApp
    /\ IdleScreen
    /\ IdleWorkers
    /\ FreshDatabase
    /\ Loaded
    /\ remote = EmptyDict
    /\ IdleRequest
    /\ IdleSync

StoreNext == Tick \/ Platform \/ StoreSync \/ StoreApply

\* The history store under sync batches and apply records.
SpecStore == StoreInit /\ [][StoreNext]_vars

\* ------------------------------------------- pure functions: specification

\* Everything but the function call under study, at rest.
AtRest ==
    /\ now = 0
    /\ Constructed
    /\ profiles = {}
    /\ app_state = EmptyDict
    /\ negotiation_history = {}
    /\ received = [k \in Keys |-> NotGiven]
    /\ remote = EmptyDict
    /\ IdleRequest
    /\ IdleSync
    /\ IdleCache
    /\ IdleAuth
    /\ IdleWalk
    /\ IdleApp
    /\ IdleScreen
    /\ IdleWorkers

\* _collect_delivered(history) is called.
CollectDelivered ==
    /\ fn_in.op = "_collect_delivered"
    /\ fn_out = NotCalled
    /\ fn_out' = Called(_collect_delivered(fn_in.history))
    /\ UNCHANGED <<now, clientVars, dbVars, storeVars, remote, reqVars, syncVars,
                   cacheVars, authVars, walkVars, appVars, screenVars, threadVars, fn_in>>

\* _status_was_delivered(status) is called.
StatusWasDelivered ==
    /\ fn_in.op = "_status_was_delivered"
    /\ fn_out = NotCalled
    /\ fn_out' = Called(_status_was_delivered(fn_in.status))
    /\ UNCHANGED <<now, clientVars, dbVars, storeVars, remote, reqVars, syncVars,
                   cacheVars, authVars, walkVars, appVars, screenVars, threadVars, fn_in>>

\* apply_to_vacancy is called and its _request ends as fn_in.outcome.
ApplyToVacancy ==
    /\ fn_in.op = "apply_to_vacancy"
    /\ fn_out = NotCalled
    /\ fn_out' = Called(apply_to_vacancy(fn_in.outcome))
    /\ UNCHANGED <<now, clientVars, dbVars, storeVars, remote, reqVars, syncVars,
                   cacheVars, authVars, walkVars, appVars, screenVars, threadVars, fn_in>>

\* _collect_delivered's first loop runs over fn_in.history.
ProcessedVacancies ==
    /\ fn_in.op = "processed_vacancies"
    /\ fn_out = NotCalled
    /\ fn_out' = Called(processed_vacancies(EmptyDict, fn_in.history))
    /\ UNCHANGED <<now, clientVars, dbVars, storeVars, remote, reqVars, syncVars,
                   cacheVars, authVars, walkVars, appVars, screenVars, threadVars, fn_in>>

\* upsert_negotiation_history([item], "p1") on the table fn_in.table.
UpsertNegotiationHistory ==
    /\ fn_in.op = "upsert_negotiation_history"
    /\ fn_out = NotCalled
    /\ fn_out' = Called(upsert_negotiation_history(fn_in.table, <<fn_in.item>>, "p1"))
    /\ UNCHANGED <<now, clientVars, dbVars, storeVars, remote, reqVars, syncVars,
                   cacheVars, authVars, walkVars, appVars, screenVars, threadVars, fn_in>>

\* A sync of profile p2, loaded in another client on the same database,
\* upserts one item into a table whose rows were written for p1.
UpsertForOtherProfile ==
    /\ fn_in.op = "upsert_for_other_profile"
    /\ fn_out = NotCalled
    /\ fn_out' = Called(upsert_negotiation_history(fn_in.table, <<fn_in.item>>, OtherProfile))
    /\ UNCHANGED <<now, clientVars, dbVars, storeVars, remote, reqVars, syncVars,
                   cacheVars, authVars, walkVars, appVars, screenVars, threadVars, fn_in>>

\* An apply action of profile p2 to vacancy v1 is recorded at instant 1 in a
\* table whose rows were written for p1.
RecordForOtherProfile ==
    /\ fn_in.op = "record_for_other_profile"
    /\ fn_out = NotCalled
    /\ fn_out' = Called(record_apply_action(fn_in.table, "v1", OtherProfile, fn_in.resume_id,
                                            fn_in.status, NoneStr, 1))
    /\ UNCHANGED <<now, clientVars, dbVars, storeVars, remote, reqVars, syncVars,
                   cacheVars, authVars, walkVars, appVars, screenVars, threadVars, fn_in>>

\* "--auth name" is completed by the account fn_in.me on the database that
\* holds profile p1 of account u1 with its saved configuration, and the
\* configuration is then loaded under name (proceed_with_profile, line 963):
\* the name loaded and the configuration returned.
Reauthorize ==
    /\ fn_in.op = "reauthorize"
    /\ fn_out = NotCalled
    /\ LET table == {StoredProfile(DefaultExpiresIn)}
           configs == save_or_update_profile_configs(
                          SavedConfigs, table, fn_in.name, fn_in.me, fn_in.answer,
                          DefaultExpiresIn)
       IN fn_out' = Called(load_profile_config(configs, fn_in.name))
    /\ UNCHANGED <<now, clientVars, dbVars, storeVars, remote, reqVars, syncVars,
                   cacheVars, authVars, walkVars, appVars, screenVars, threadVars, fn_in>>

FnInit ==
    /\ AtRest
    /\ fn_in \in FnInputs
    /\ fn_out = NotCalled

FnNext ==
    \/ CollectDelivered
    \/ StatusWasDelivered
    \/ ApplyToVacancy
    \/ ProcessedVacancies
    \/ UpsertNegotiationHistory
    \/ UpsertForOtherProfile
    \/ RecordForOtherProfile
    \/ Reauthorize

\* The classifier, Reduce and apply_to_vacancy, each on one input.
SpecFn == FnInit /\ [][FnNext]_vars

\* -------------------------------------------- authorization: specification

\* hhcli --auth name is started.
Authorize ==
    /\ \E name \in AuthProfiles : AuthorizeStart(name)
    /\ UNCHANGED <<now, app_state, storeVars, remote, reqVars, syncVars, cacheVars, fnVars,
                   walkVars, appVars, screenVars, threadVars>>

\* A request comes to /oauth_callback.
OAuthCallback ==
    /\ \E code \in AuthCodes, answer \in AuthAnswers, me \in MeAnswers :
         oauth_callback(code, answer, me)
    /\ UNCHANGED <<now, app_state, storeVars, remote, reqVars, syncVars, cacheVars, fnVars,
                   walkVars, appVars, screenVars, threadVars>>

\* authorize returned: main makes the profile the active one.
SetActiveProfile ==
    /\ main_set_active
    /\ UNCHANGED <<now, clientVars, profiles, auth_log, callback_response, exchanged,
                   storeVars, remote, reqVars, syncVars, cacheVars, fnVars, walkVars, appVars, screenVars, threadVars>>

\* The "--auth" process ends.
AuthExit ==
    /\ main_return
    /\ UNCHANGED <<now, clientVars, dbVars, auth_log, callback_response, exchanged,
                   storeVars, remote, reqVars, syncVars, cacheVars, fnVars, walkVars, appVars, screenVars, threadVars>>

\* The TUI, started when the active profile loads (main.run, lines 42-56),
\* makes a stored profile the active one: the only profile at start, or the
\* row chosen on ProfileSelectionScreen.
SelectProfile ==
    /\ listener = "off"
    /\ get_active_profile_name(app_state) # None
    /\ load_profile(profiles, get_active_profile_name(app_state)) # NoneDict
    /\ \E row \in profiles : app_state' = set_active_profile(app_state, row.profile_name)
    /\ UNCHANGED <<now, clientVars, profiles, authVars,
                   storeVars, remote, reqVars, syncVars, cacheVars, fnVars, walkVars, appVars, screenVars, threadVars>>

\* logout(profile) is called on the client.
Logout ==
    /\ listener = "off"
    /\ \E profile \in AuthProfiles : logout(profile)
    /\ UNCHANGED <<now, refresh_token, token_expires_at, profile_name, app_state, authVars,
                   storeVars, remote, reqVars, syncVars, cacheVars, fnVars, walkVars, appVars, screenVars, threadVars>>

AuthInit ==
    /\ AtRest
    /\ IdleFn

AuthNext ==
    \/ Tick
    \/ Authorize
    \/ OAuthCallback
    \/ SetActiveProfile
    \/ AuthExit
    \/ SelectProfile
    \/ Logout

\* The credential store and the active-profile pointer under authorizations
\* of two accounts and two names, profile selection and logout.
SpecAuth == AuthInit /\ [][AuthNext]_vars

\* ----------------------------------------------------- logout: specification

\* logout(profile) is called on the client of the request executor, between
\* two calls.
ClientLogout ==
    /\ rpc = "idle"
    /\ Logout

LogoutNext ==
    \/ Tick
    \/ LoadProfileData
    \/ ClientLogout
    \/ Execute
    \/ Validate
    \/ RefreshFirst
    \/ Call
    \/ On401
    \/ Return

\* The request executor on a client whose profile may be logged out.
SpecLogout == Init /\ [][LogoutNext]_vars

\* ------------------------------------------------- page walk: specification

\* The negotiations the platform holds during the page walks.
WalkKeys == {<<"v1", "r1">>, <<"v2", "r1">>, <<"v3", "r1">>}

\* What the platform can hold: some of them, each changed at instant 0 or 1.
WalkRemotes ==
    UNION {[keys -> {[state |-> S_response, updated_at |-> t] : t \in {0, 1}}] :
             keys \in SUBSET WalkKeys}

\* sync_negotiation_history is started; its page requests are recorded anew.
WalkStart ==
    /\ SyncStart
    /\ walk' = <<>>
    /\ UNCHANGED <<now, clientVars, dbVars, storeVars, remote, reqVars,
                   cacheVars, authVars, fnVars, appVars, screenVars, threadVars>>

\* The request for a page is sent with params and answered 200 with the page.
WalkCall ==
    /\ caller = "sync"
    /\ RequestCall([status |-> 200, body |-> NegotiationsPage(params)])
    /\ walk' = Append(walk, params)
    /\ UNCHANGED <<now, app_state, storeVars, remote, syncVars,
                   cacheVars, authVars, fnVars, appVars, screenVars, threadVars>>

WalkInit ==
    /\ now = 0
    /\ IdleCache
    /\ IdleAuth
    /\ IdleFn
    /\ IdleApp
    /\ IdleScreen
    /\ IdleWorkers
    /\ walk = <<>>
    /\ profiles = {StoredProfile(DefaultExpiresIn)}
    /\ app_state \in {EmptyDict, set_last_sync_timestamp(EmptyDict, "p1", 1)}
    /\ negotiation_history = {}
    /\ received = [k \in Keys |-> NotGiven]
    /\ Loaded
    /\ remote \in WalkRemotes
    /\ IdleRequest
    /\ IdleSync

\* A step of the while loop of lines 204-215 and of the _request it calls.
WalkLoop == RequestPage \/ Validate \/ WalkCall \/ PageOk

WalkNext ==
    Tick \/ WalkStart \/ RequestPage \/ Validate \/ WalkCall \/ PageOk \/ FinishSync

\* Sync runs whose every page request succeeds, over a platform that does
\* not change; the thread of a started run goes on running its loop.
SpecWalk == WalkInit /\ [][WalkNext]_vars /\ WF_vars(WalkLoop)

\* ------------------------------------------------ application: specification

\* Instance i of the application is started.
Mount ==
    /\ \E i \in Instances : on_mount(i)
    /\ UNCHANGED <<now, clientVars, profiles, storeVars, remote, reqVars, syncVars,
                   cacheVars, authVars, fnVars, walkVars, screenVars, threadVars>>

\* The user chooses a profile on the selection screen of instance i.
OnProfileSelected ==
    /\ \E i \in Instances, row \in profiles : on_profile_selected(i, row.profile_name)
    /\ UNCHANGED <<now, clientVars, profiles, storeVars, remote, reqVars, syncVars,
                   cacheVars, authVars, fnVars, walkVars, screenVars, threadVars>>

\* The SyncWorker of an instance ends.
SyncWorkerEnds ==
    /\ \E i \in Instances : sync_worker_ends(i)
    /\ UNCHANGED <<now, clientVars, profiles, storeVars, remote, reqVars, syncVars,
                   cacheVars, authVars, fnVars, walkVars, screenVars, threadVars>>

\* The user quits an instance.
Quit ==
    /\ \E i \in Instances : action_quit(i)
    /\ UNCHANGED <<now, clientVars, profiles, storeVars, remote, reqVars, syncVars,
                   cacheVars, authVars, fnVars, walkVars, screenVars, threadVars>>

\* The database after "--auth p1" alone, or after "--auth p2" by a second
\* account and the choice of one of the two profiles.
AppInit ==
    /\ now = 0
    /\ Constructed
    /\ \/ /\ profiles = {StoredProfile(DefaultExpiresIn)}
          /\ app_state = set_active_profile(EmptyDict, "p1")
       \/ /\ profiles = {StoredProfile(DefaultExpiresIn),
                          [StoredProfile(DefaultExpiresIn) EXCEPT
                              !.profile_name = "p2", !.hh_user_id = "u2"]}
          /\ app_state \in {set_active_profile(EmptyDict, name) : name \in AuthProfiles}
    /\ negotiation_history = {}
    /\ received = [k \in Keys |-> NotGiven]
    /\ remote = EmptyDict
    /\ IdleRequest
    /\ IdleSync
    /\ IdleCache
    /\ IdleAuth
    /\ IdleFn
    /\ IdleWalk
    /\ IdleApp
    /\ IdleScreen
    /\ IdleWorkers

AppNext == Tick \/ Mount \/ OnProfileSelected \/ SyncWorkerEnds \/ Quit

\* Two instances of the application on one database: their TUIs and their
\* SyncWorkers.
SpecApp == AppInit /\ [][AppNext]_vars

\* ------------------------------------------- vacancy details: specification

\* The user moves to a vacancy of the list (after the debounce timer).
LoadVacancyDetails ==
    /\ \E vacancy_id \in ScreenVacancies : load_vacancy_details(vacancy_id)
    /\ UNCHANGED <<now, clientVars, dbVars, storeVars, remote, reqVars, syncVars,
                   dictionaries_cache, cache_pc, cache_read, authVars, fnVars, walkVars,
                   appVars, selected_vacancies, apply_pc, apply_todo, apply_attempts, threadVars>>

\* A fetch worker ends.
FetchWorkerEnds ==
    /\ \E vacancy_id \in ScreenVacancies, outcome \in FetchOutcomes :
          fetch_vacancy_details_worker(vacancy_id, outcome)
    /\ UNCHANGED <<now, clientVars, dbVars, storeVars, remote, reqVars, syncVars,
                   dictionaries_cache, cache_pc, cache_read, authVars, fnVars, walkVars,
                   appVars, selected_vacancies, apply_pc, apply_todo, apply_attempts, threadVars>>

DetailsInit ==
    /\ AtRest
    /\ IdleFn

DetailsNext == Tick \/ LoadVacancyDetails \/ FetchWorkerEnds

\* The details pane of the vacancy list screen under fetch workers that end
\* in any order.
SpecDetails == DetailsInit /\ [][DetailsNext]_vars

\* ------------------------------------------------ apply batch: specification

\* The user toggles a vacancy.
ToggleCurrent ==
    /\ \E vacancy_id \in ScreenVacancies : toggle_current(vacancy_id)
    /\ UNCHANGED <<now, clientVars, dbVars, received, remote, reqVars, syncVars,
                   cacheVars, authVars, fnVars, walkVars, appVars,
                   pending_details_id, details_pane, fetch_workers, threadVars>>

\* The user confirms the apply for the selection.
OnApplyConfirmed ==
    /\ on_apply_confirmed
    /\ UNCHANGED <<now, clientVars, dbVars, received, remote, reqVars, syncVars,
                   cacheVars, authVars, fnVars, walkVars, appVars,
                   pending_details_id, details_pane, fetch_workers, threadVars>>

\* The apply worker makes a pass of its loop, or finalizes.
RunApplyWorker ==
    /\ \E outcome \in ApplyOutcomes : run_apply_worker(outcome)
    /\ UNCHANGED <<now, clientVars, dbVars, received, remote, reqVars, syncVars,
                   cacheVars, authVars, fnVars, walkVars, appVars,
                   pending_details_id, details_pane, fetch_workers, threadVars>>

\* The screen of a client loaded from the stored profile.
ApplyInit ==
    /\ now = 0
    /\ profiles = {StoredProfile(DefaultExpiresIn)}
    /\ Loaded
    /\ app_state = EmptyDict
    /\ negotiation_history = {}
    /\ received = [k \in Keys |-> NotGiven]
    /\ remote = EmptyDict
    /\ IdleRequest
    /\ IdleSync
    /\ IdleCache
    /\ IdleAuth
    /\ IdleFn
    /\ IdleWalk
    /\ IdleApp
    /\ IdleScreen
    /\ IdleWorkers

ApplyNext == Tick \/ ToggleCurrent \/ OnApplyConfirmed \/ RunApplyWorker

\* The apply batches of the vacancy list screen.
SpecApply == ApplyInit /\ [][ApplyNext]_vars

\* ---------------------------------------- threads on one client: specification

WorkerStarts ==
    /\ \E w \in Workers : worker_starts(w)
    /\ UNCHANGED <<now, app_state, storeVars, remote, reqVars, syncVars, cacheVars,
                   authVars, fnVars, walkVars, appVars, screenVars>>

WorkerValidates ==
    /\ \E w \in Workers : worker_validates(w)
    /\ UNCHANGED <<now, app_state, storeVars, remote, reqVars, syncVars, cacheVars,
                   authVars, fnVars, walkVars, appVars, screenVars>>

WorkerPostsGrant ==
    /\ \E w \in Workers : worker_posts_grant(w)
    /\ UNCHANGED <<now, app_state, storeVars, remote, reqVars, syncVars, cacheVars,
                   authVars, fnVars, walkVars, appVars, screenVars>>

WorkerGetsAnswer ==
    /\ \E w \in Workers, answer \in TokenAnswers : worker_gets_answer(w, answer)
    /\ UNCHANGED <<now, app_state, storeVars, remote, reqVars, syncVars, cacheVars,
                   authVars, fnVars, walkVars, appVars, screenVars>>

WorkerCalls ==
    /\ \E w \in Workers, response \in PlainResponses : worker_calls(w, response)
    /\ UNCHANGED <<now, app_state, storeVars, remote, reqVars, syncVars, cacheVars,
                   authVars, fnVars, walkVars, appVars, screenVars>>

ThreadsNext ==
    \/ Tick
    \/ WorkerStarts
    \/ WorkerValidates
    \/ WorkerPostsGrant
    \/ WorkerGetsAnswer
    \/ WorkerCalls

\* The threads of proceed_with_profile on the client of a stored profile,
\* their steps interleaved in any order.
SpecThreads == SyncInit /\ [][ThreadsNext]_vars

\* ----------------------------------------------------- cache: specification

\* A day passes.
DayPasses ==
    /\ now < MaxDay
    /\ now' = now + 1
    /\ UNCHANGED <<clientVars, dbVars, storeVars, remote, reqVars, syncVars, extVars>>

\* The user moves to a vacancy of the list.
UpdateVacancyDetails ==
    /\ \E vacancy_id \in Vacancies : update_vacancy_details(vacancy_id)
    /\ UNCHANGED <<now, clientVars, dbVars, storeVars, remote, reqVars, syncVars,
                   authVars, fnVars, walkVars, appVars, screenVars, threadVars>>

\* The fetch worker runs.
FetchVacancyDetails ==
    /\ \E outcome \in FetchOutcomes : fetch_vacancy_details(outcome)
    /\ UNCHANGED <<now, clientVars, dbVars, storeVars, remote, reqVars, syncVars,
                   authVars, fnVars, walkVars, appVars, screenVars, threadVars>>

\* The application starts and loads the dictionaries.
CacheDictionaries ==
    /\ \E outcome \in FetchOutcomes : cache_dictionaries(outcome)
    /\ UNCHANGED <<now, clientVars, dbVars, storeVars, remote, reqVars, syncVars,
                   authVars, fnVars, walkVars, appVars, screenVars, threadVars>>

CacheInit ==
    /\ AtRest
    /\ IdleFn

CacheNext == DayPasses \/ UpdateVacancyDetails \/ FetchVacancyDetails \/ CacheDictionaries

\* The cache of vacancy details and dictionaries over the days.
SpecCache == CacheInit /\ [][CacheNext]_vars

\* ------------------------------------------------------------------ claims

\* The outcomes of a sync run that a failed page fetch ends.
FailedOutcomes == {"http_error", "raised"}

\* The watermark stored for the client's profile, or NoTime.
Watermark == get_last_sync_timestamp(app_state, profile_name)

\* A row of the history store holds the platform's negotiation k as it is.
Stored(k) ==
    \E row \in negotiation_history :
        /\ RowKey(row) = <<k[1], ResumeKey(k[2])>>
        /\ row.applied_at = remote[k].updated_at
        /\ row.status = remote[k].state

\* C1: a _request call that found the credentials valid and whose first
\* resource request was answered 401 has, when it is over, done exactly one
\* refresh and sent exactly one retry, in the order validate, call, refresh,
\* retry, return; a retry answered 401 ends it with the authentication error.
C1_SingleRefreshAndRetry ==
    (rpc = "done" /\ valid /\ responses # <<>> /\ responses[1].status = 401)
    => /\ log = <<"validate", "call", "refresh", "retry", "return">>
       /\ Len(refreshes) = 1
       /\ Len(sent) = 2
       /\ responses[2].status = 401 => result = AuthFailure

\* C2: a _request call that found the credentials not valid refreshes before
\* any resource request; when that refresh fails the call is over with the
\* authentication error and no resource request has been sent.
C2_RefreshFirstFailFast ==
    (rpc \in {"call", "on401", "done"} /\ ~valid)
    => /\ Len(log) >= 2 /\ log[2] = "refresh"
       /\ refreshes # <<>>
       /\ refreshes[1] # ""
          => /\ rpc = "done"
             /\ result = AuthFailure
             /\ sent = <<>>
             /\ log = <<"validate", "refresh", "return">>

\* A call entered with credentials that are not valid is over after the token
\* endpoint rejected the grant: authentication error, nothing sent.
C2_Witness ==
    /\ rpc = "done"
    /\ ~valid
    /\ refreshes = <<"HTTPError">>
    /\ result = AuthFailure
    /\ sent = <<>>

C4_FailedRunKeepsWatermark ==
    [][/\ (run.outcome = "running" /\ run'.outcome \in FailedOutcomes)
          => /\ app_state' = app_state
             /\ get_last_sync_timestamp(app_state', profile_name) = run.wm_before
       /\ (run.outcome \in FailedOutcomes /\ run'.outcome = "running")
          => /\ params' = StartParams(run.wm_before)
             /\ run'.wm_before = run.wm_before]_vars

\* A run started after a failed run of a profile with a stored watermark is
\* asking for its pages with date_from of that watermark.
C4_Witness ==
    /\ run.outcome = "running"
    /\ run.after_failure
    /\ run.wm_before # NoTime
    /\ spc = "await"
    /\ "date_from" \in DOMAIN params
    /\ params.date_from = IsoFormat(Watermark)

\* C5: when a failed page fetch ends a sync run, the items of the pages the
\* run had fetched before it are rows of the history store.
C5_PartialProgressKept ==
    [][(run.outcome = "running" /\ run'.outcome \in FailedOutcomes)
       => \A i \in DOMAIN all_items :
             \E row \in negotiation_history' :
                RowKey(row) = RowKey(SyncValues(all_items[i], profile_name))]_vars

\* C6: after a sync run whose page walk completed, the stored watermark is
\* the instant at which the run started.
C6_WatermarkIsRunStart ==
    run.outcome = "ok" => Watermark = run.started_at

\* C7: whenever a watermark W is stored, every negotiation the platform
\* changed at an instant earlier than W is in the history store as the
\* platform holds it.
C7_NothingBeforeWatermarkMissed ==
    Watermark # NoTime
    => \A k \in DOMAIN remote : remote[k].updated_at < Watermark => Stored(k)

\* The entry Reduce (_collect_delivered's first loop) holds for vacancy vid
\* after reading the history list h.
ReduceEntry(h, vid) == processed_vacancies(EmptyDict, h)[vid]

\* C8: for every (vacancy id, resume id) key, once the persisted
\* was_delivered flag is true it stays true after any later upsert of that
\* key, by a sync batch or by the apply path.
C8_WasDeliveredSticky ==
    [][\A r \in negotiation_history, r2 \in negotiation_history' :
          (RowKey(r) = RowKey(r2) /\ r.was_delivered) => r2.was_delivered]_vars

\* C9: for every (vacancy id, resume id) key, the persisted applied_at never
\* moves backward over any sequence of upserts.
C9_AppliedAtMonotone ==
    [][\A r \in negotiation_history, r2 \in negotiation_history' :
          RowKey(r) = RowKey(r2) => r2.applied_at >= r.applied_at]_vars

\* C10: once the store has been given, for one key, a record with status
\* applied and then a record with status rejected carrying a later timestamp,
\* Reduce over the stored history of that vacancy yields lastStatus = rejected
\* and wasDelivered = true.
C10_AppliedThenRejected ==
    [][\A k \in Keys :
          (/\ received[k].status = S_applied
           /\ received'[k].status = S_rejected
           /\ received'[k].applied_at > received[k].applied_at)
          => \A h \in get_full_negotiation_history_for_profile(
                          negotiation_history', profile_name) :
                /\ ReduceEntry(h, k[1]).last_status = S_rejected
                /\ ReduceEntry(h, k[1]).has_been_delivered]_vars

\* The last element of a sequence that is not empty.
Last(s) == s[Len(s)]

\* C11: _collect_delivered reports a vacancy as delivered if and only if
\* _is_delivered holds for the status of at least one of the vacancy's
\* records in the history it was given, whatever the most recent status is.
C11_DeliveredIffAnyRecordDelivered ==
    (fn_in.op = "_collect_delivered" /\ fn_out.done)
    => \A vid \in Vacancies :
          vid \in fn_out.value
          <=> \E i \in DOMAIN fn_in.history :
                 /\ fn_in.history[i].vacancy_id = vid
                 /\ _is_delivered(fn_in.history[i].status)

\* C12: a _refresh_token call made while a refresh token is held and whose
\* grant the token endpoint accepts replaces the stored access token,
\* refresh token and expiry (now + expires_in, 3600 without the field) in the
\* profile's row, keyed by the same remote user id, and the client's fields
\* equal them, so is_authenticated holds right after.
C12_RefreshReplacesCredentials ==
    [][(/\ Len(refreshes') = Len(refreshes) + 1
        /\ Last(refreshes') \notin {"NoRefreshToken", "HTTPError"})
       => \E answer \in {a \in TokenAnswers : "rejected" \notin DOMAIN a} :
             /\ access_token' = answer.access_token
             /\ refresh_token' = answer.refresh_token
             /\ token_expires_at' = now + Get(answer, "expires_in", DefaultExpiresIn)
             /\ token_expires_at' > now'
             /\ \E old \in profiles, row \in profiles' :
                   /\ old.profile_name = profile_name
                   /\ row.hh_user_id = old.hh_user_id
                   /\ row.access_token = answer.access_token
                   /\ row.refresh_token = answer.refresh_token
                   /\ row.expires_at = token_expires_at']_vars

\* C13: while no refresh token is held, _refresh_token fails without posting
\* to the token endpoint and changes nothing; a _request call in which that
\* happened is over with the authentication error.
C13_NoRefreshTokenNoPost ==
    /\ refresh_token = NoToken
       => \A answer \in TokenAnswers :
             /\ _refresh_token(answer).error = "NoRefreshToken"
             /\ ~_refresh_token(answer).posted
             /\ _refresh_token(answer).table = profiles
             /\ _refresh_token(answer).access_token = access_token
    /\ \A i \in DOMAIN refreshes :
          refreshes[i] = "NoRefreshToken" => rpc = "done" /\ result = AuthFailure

\* A _request call of a client without tokens is over: its refresh failed
\* for want of a refresh token, and nothing was sent.
C13_Witness ==
    /\ rpc = "done"
    /\ refresh_token = NoToken
    /\ refreshes = <<"NoRefreshToken">>
    /\ sent = <<>>
    /\ result = AuthFailure

\* C14: what is_authenticated answers at the entry of _request is false
\* exactly when the access token is absent or the expiry is less than or
\* equal to now, and true otherwise.
C14_IsValidExactly ==
    [][(rpc = "validate" /\ rpc' # "validate")
       => (valid' <=> ~(access_token = NoToken \/ token_expires_at <= now))]_vars

\* A call found a held token not valid at the very instant of its expiry.
C14_Witness ==
    /\ rpc = "refresh"
    /\ ~valid
    /\ access_token # NoToken
    /\ token_expires_at = now

\* C15: the profiles table never holds two rows of one remote user id; a
\* saved authorization of an account that has a row leaves the number of
\* rows as it was and that row replaced by one with the new name and the new
\* tokens.
C15_OneRowPerRemoteUser ==
    [][/\ \A r1, r2 \in profiles' : r1.hh_user_id = r2.hh_user_id => r1 = r2
       /\ \A old \in profiles, new \in profiles' \ profiles :
             new.hh_user_id = old.hh_user_id
             => /\ Cardinality(profiles') = Cardinality(profiles)
                /\ old \notin profiles'
                /\ new.profile_name = profile_name
                /\ new.access_token = access_token'
                /\ new.refresh_token = refresh_token']_vars

\* An account stored under one name was authorized under another: its one
\* row carries the new name.
C15_Witness ==
    /\ auth_log.renamed_from # None
    /\ auth_log.renamed_from # auth_log.profile_name
    /\ \E row \in profiles :
          /\ row.hh_user_id = auth_log.hh_user_id
          /\ row.profile_name = auth_log.profile_name
    /\ Cardinality({row \in profiles : row.hh_user_id = auth_log.hh_user_id}) = 1

\* The read remembered in cache_read went on to a live fetch.
WentToFetch ==
    \/ cache_read.fetch # "none"
    \/ cache_pc = [kind |-> cache_read.kind, key |-> cache_read.key]

\* C16: a cache read serves the cached value exactly when the key
\* has a row and now - cached_at <= 7 days; every other read goes on to a
\* live fetch.
C16_ServedIffWithinTTL ==
    cache_read.kind # "none"
    => /\ cache_read.served
          <=> (cache_read.age # NoTime /\ cache_read.age <= MaxAgeDays)
       /\ ~cache_read.served => WentToFetch

\* The cache table the read remembered in cache_read was made on, as it is
\* after the step.
ReadTableNext ==
    IF cache_read'.kind = "vacancy" THEN vacancy_cache' ELSE dictionaries_cache'

\* C17: a step after which the live fetch behind a cache miss has failed
\* leaves both cache tables as they were, and a read of the same key is
\* still a miss.
C17_FailedFetchWritesNothing ==
    [][cache_read'.fetch = "failed"
       => /\ vacancy_cache' = vacancy_cache
          /\ dictionaries_cache' = dictionaries_cache
          /\ ~Truthy(CacheSelect(ReadTableNext, cache_read'.key, now'))]_vars

\* The fetch of vacancy details behind a miss failed; the worker is over.
C17_Witness ==
    /\ cache_read.kind = "vacancy"
    /\ ~cache_read.served
    /\ cache_read.fetch = "failed"
    /\ cache_pc = NoFetch

\* C18: for an HTTP error of its request, apply_to_vacancy returns as reason
\* the type of the first element of the errors array of the JSON body, and
\* http_<status> when the body is not JSON.
C18_ReasonFromErrorBody ==
    (fn_in.op = "apply_to_vacancy" /\ fn_out.done /\ fn_in.outcome.kind = "HTTPError")
    => LET body == fn_in.outcome.value
       IN /\ ~fn_out.value.ok
          /\ ~body.json => fn_out.value.reason = HttpReason(fn_in.outcome.status)
          /\ (/\ body.json
              /\ "errors" \in DOMAIN body
              /\ body.errors # <<>>
              /\ "type" \in DOMAIN body.errors[1])
             => fn_out.value.reason = Text(body.errors[1].type)

\* C19: a sync upsert leaves the reason of every row it finds as it was and
\* inserts rows without a reason; a step that puts a reason on a row is a
\* record_apply_action.
C19_SyncLeavesReason ==
    [][/\ StoreSync
          => \A new \in negotiation_history' :
                IF \E old \in negotiation_history : RowKey(old) = RowKey(new)
                THEN \A old \in negotiation_history :
                        RowKey(old) = RowKey(new) => new.reason = old.reason
                ELSE new.reason = NoneStr
       /\ (\E new \in negotiation_history' :
             /\ new.reason # NoneStr
             /\ \A old \in negotiation_history :
                   RowKey(old) = RowKey(new) => old.reason # new.reason)
          => StoreApply]_vars

\* A row whose reason the apply path wrote has since been upserted by a
\* sync: it has the platform's status and still the reason.
C19_Witness ==
    \E row \in negotiation_history :
        /\ row.reason # NoneStr
        /\ row.status \in RemoteStates
        /\ received[RowKey(row)].status = row.status

C21_NoContentDistinctFromNull ==
    (rpc = "done" /\ result.kind = "ok" /\ Last(responses).status = 204)
    => result.value # Returned([status |-> 200, body |-> NoneDict]).value

\* C23: negotiation_history never holds two rows of one (vacancy id, resume
\* id) pair, and upserting a batch of items a second time leaves the table
\* as the first upsert left it.
C23_OneRowPerKeyIdempotent ==
    /\ \A r1, r2 \in negotiation_history : RowKey(r1) = RowKey(r2) => r1 = r2
    /\ \A b \in Batches :
          LET items == [i \in DOMAIN b |-> RemoteItem(b[i])]
              once == upsert_negotiation_history(negotiation_history, items, profile_name)
          IN upsert_negotiation_history(once, items, profile_name) = once

\* Both keys have their row, and the row of resume r1 was written by the
\* apply path and then upserted by a sync.
C23_Witness ==
    /\ Cardinality(negotiation_history) = Cardinality(Keys)
    /\ \E row \in negotiation_history :
          /\ row.resume_id = "r1"
          /\ row.reason # NoneStr
          /\ row.status \in RemoteStates

\* C27: what the caller of sync_negotiation_history gets from a run that a
\* failed page fetch ended differs from what it gets from a run that
\* completed.
C27_FailedRunReported ==
    run.outcome \in FailedOutcomes => SyncReport(run.outcome) # SyncReport("ok")

\* The state of an item, as the claim reads it: the id, else the code, else
\* the name.
ItemState(item) ==
    IF item.state_id # NoneStr THEN item.state_id
    ELSE IF item.state_code # NoneStr THEN item.state_code
    ELSE item.state_name

\* C29: upsert_negotiation_history on an item without a vacancy id leaves the
\* table as it was; on an item with one, the row of the item's key has the
\* lower-cased state id (or code) as its status when the item has one, else
\* the lower-cased state name, and the key's resume id is the empty string
\* when the item has no resume.
C29_SyncedStatusAndKey ==
    (fn_in.op = "upsert_negotiation_history" /\ fn_out.done)
    => LET item == fn_in.item
       IN IF item.vacancy_id = None THEN fn_out.value = fn_in.table
          ELSE \E row \in fn_out.value :
                  /\ row.vacancy_id = item.vacancy_id
                  /\ row.resume_id = (IF item.resume_id = None THEN "" ELSE item.resume_id)
                  /\ ItemState(item) # NoneStr => row.status = Lower(ItemState(item))
                  /\ \A other \in fn_out.value \ {row} :
                        other \in fn_in.table /\ RowKey(other) # RowKey(row)

\* An item without a resume, its state given by name only, was upserted: the
\* row has the empty resume id and the lower-cased name.
C29_Witness ==
    /\ fn_in.op = "upsert_negotiation_history"
    /\ fn_out.done
    /\ fn_in.item.resume_id = None
    /\ fn_in.item.state_id = NoneStr
    /\ fn_in.item.state_code = NoneStr
    /\ \E row \in fn_out.value : row.resume_id = "" /\ row.status = S_discard

\* C30: after _collect_delivered's first loop, last_status of a vacancy is
\* the status of the one record of the vacancy whose applied_at is greater
\* than that of every other record of the vacancy, wherever in the list that
\* record stands.
C30_LastStatusIsNewest ==
    (fn_in.op = "processed_vacancies" /\ fn_out.done)
    => \A m \in DOMAIN fn_in.history :
          (\A j \in DOMAIN fn_in.history \ {m} :
              fn_in.history[j].vacancy_id = fn_in.history[m].vacancy_id
              => fn_in.history[j].applied_at < fn_in.history[m].applied_at)
          => fn_out.value[fn_in.history[m].vacancy_id].last_status = fn_in.history[m].status

\* The newest record of a vacancy was supplied after an older one with
\* another status: its status is the last status.
C30_Witness ==
    /\ fn_in.op = "processed_vacancies"
    /\ fn_out.done
    /\ Len(fn_in.history) = 2
    /\ fn_in.history[1].vacancy_id = fn_in.history[2].vacancy_id
    /\ fn_in.history[2].applied_at > fn_in.history[1].applied_at
    /\ fn_in.history[1].status # fn_in.history[2].status
    /\ fn_out.value[fn_in.history[2].vacancy_id].last_status = fn_in.history[2].status

\* C22: no two sync runs of one profile are in progress at the same time.
C22_NoOverlappingRuns ==
    \A i, j \in Instances :
        (i # j /\ sync_worker[i] # None) => sync_worker[i] # sync_worker[j]

\* C24: the active-profile pointer, when stored, names a profile that has a
\* row in profiles.
C24_ActiveProfileExists ==
    get_active_profile_name(app_state) # None
    => \E row \in profiles : row.profile_name = get_active_profile_name(app_state)

\* C25: one authorize invocation exchanges and saves at most one code.
C25_OneExchangePerAuthorize == exchanged <= 1

\* C26: a callback without a code is answered 400, one whose token exchange
\* or /me request fails is answered 500 with the text of the error; a
\* callback answered 400 or 500 leaves the profiles table and the client's
\* credentials as they were and does not set the event.
C26_FailedCallbackStoresNothing ==
    [][callback_response' # callback_response
       => /\ callback_response'.cause = "no_code" => callback_response'.status = 400
          /\ callback_response'.cause = "token_failed"
             => /\ callback_response'.status = 500
                /\ callback_response'.text = TokenErrorText("token")
          /\ callback_response'.cause = "me_failed"
             => /\ callback_response'.status = 500
                /\ callback_response'.text = TokenErrorText("me")
          /\ callback_response'.status \in {400, 500}
             => /\ UNCHANGED <<profiles, access_token, refresh_token, token_expires_at>>
                /\ listener' = listener
                /\ exchanged' = exchanged]_vars

\* The /me request of the first callback failed: answered 500, nothing is
\* stored and authorize is still waiting.
C26_Witness ==
    /\ callback_response.status = 500
    /\ callback_response.cause = "me_failed"
    /\ listener = "listening"
    /\ profiles = {}
    /\ access_token = NoToken

\* The page requests of a run whose every page fetch succeeds: with P the
\* page count of the negotiations the run's filter selects, pages 0 to
\* max(P, 1) - 1 in this order, each once, all with the date_from the run
\* started with.
WalkExpected ==
    LET prm == StartParams(run.wm_before)
        P == PageCount(Cardinality(Selected(prm)))
    IN [i \in 1..(IF P > 1 THEN P ELSE 1) |-> [prm EXCEPT !.page = i - 1]]

\* The page requests made so far are the first of the expected ones, and all
\* of them once the loop is left.
WalkAsExpected ==
    run.outcome \in {"running", "ok"}
    => /\ Len(walk) <= Len(WalkExpected)
       /\ walk = SubSeq(WalkExpected, 1, Len(walk))
       /\ (spc = "save" \/ run.outcome = "ok") => walk = WalkExpected

\* C28: when every page fetch succeeds and the page count P is constant, a
\* sync run requests pages 0 to max(P, 1) - 1 in increasing order, each once,
\* all with the same date_from, and then leaves the loop for the upsert and
\* the watermark that end it.
C28_WalkRequestsEachPageOnce ==
    /\ []WalkAsExpected
    /\ (run.outcome = "running") ~> (spc = "save")

\* A run with a watermark walked three pages and left the loop.
C28_Witness ==
    /\ spc = "save"
    /\ Len(walk) = 3
    /\ \A i \in 1..3 : walk[i].page = i - 1 /\ "date_from" \in DOMAIN walk[i]

\* C33: for every stored row, the was_delivered flag the store computed with
\* _status_was_delivered equals what the UI's _is_delivered gives for the
\* row's status.
C33_ClassifiersAgree ==
    \A row \in negotiation_history : row.was_delivered = _is_delivered(row.status)

\* C32: a sync or an apply action of profile p2 leaves the rows of profile p1
\* as they were.
C32_OtherProfileRowsKept ==
    (fn_in.op \in {"upsert_for_other_profile", "record_for_other_profile"} /\ fn_out.done)
    => {row \in fn_out.value : row.profile_name = "p1"}
       = {row \in fn_in.table : row.profile_name = "p1"}

\* C34: a _refresh_token call that fails, whatever the step (the grant is
\* rejected, the answer lacks a token field, the save raises), leaves the
\* profiles table and the client's access token, refresh token and expiry as
\* they were.
C34_FailedRefreshChangesNothing ==
    [][(Len(refreshes') = Len(refreshes) + 1 /\ Last(refreshes') # "")
       => UNCHANGED <<profiles, access_token, refresh_token, token_expires_at>>]_vars

\* A refresh whose grant was accepted failed in the save, and the client
\* holds the tokens it was loaded with.
C34_Witness ==
    /\ refreshes = <<"KeyError">>
    /\ access_token = 1
    /\ refresh_token = 1
    /\ \E row \in profiles : row.access_token = 1 /\ row.refresh_token = 1

C35_NothingSentForDeletedProfile ==
    [][(profile_name # None /\ load_profile(profiles, profile_name) = NoneDict)
       => /\ Len(sent') > Len(sent) => Last(sent') # StoredProfile(0).access_token
          /\ Len(refreshes') = Len(refreshes) + 1 => Last(refreshes') = "NoRefreshToken"]_vars

\* C36: when the account that holds profile p1 is authorized again under a
\* local name, the configuration loaded under that name is the one saved for
\* the profile.
C36_ConfigFollowsRename ==
    (fn_in.op = "reauthorize" /\ fn_out.done /\ fn_in.me.id = "u1")
    => fn_out.value = SavedConfig

\* C38: when a fetch worker ends for a vacancy that is not the pending one,
\* whatever its outcome, the details pane stays as it is.
C38_StaleFetchLeavesPane ==
    [][\A vacancy_id \in fetch_workers \ fetch_workers' :
          vacancy_id # pending_details_id => details_pane' = details_pane]_vars

\* C39: when the worker of a confirmed apply batch has ended, every vacancy
\* of the batch had exactly one apply attempt and has a history row, and the
\* selection is empty.
C39_BatchAppliedAndRecorded ==
    apply_pc \in {"finished", "crashed"}
    => /\ Len(apply_attempts) = Len(apply_todo)
       /\ \A i \in DOMAIN apply_todo :
             /\ apply_attempts[i] = apply_todo[i]
             /\ \E row \in negotiation_history : row.vacancy_id = apply_todo[i]
       /\ selected_vacancies = {}

\* C31: with several threads on one client, at most one refresh grant is in
\* flight at any moment, and no refresh token is posted twice.
C31_OneRefreshAtATime ==
    /\ Cardinality({w \in Workers : worker_pc[w] \in {"posted", "posted401"}}) <= 1
    /\ \A i, j \in DOMAIN grants :
          i # j => grants[i].refresh_token # grants[j].refresh_token

====
